---- MODULE Spec2Model ----
(***************************************************************************)
(* Model of the resume-tailoring engine: the length-fidelity enforcer      *)
(* (backend/utils/text_utils.py), the run-oriented classifier and injector *)
(* (backend/services/docx_engine.py) and the geometry-oriented classifier  *)
(* and injector (backend/services/pdf_engine.py).                          *)
(*                                                                         *)
(* A text is a sequence of one-character strings, so that slicing, rfind,  *)
(* strip and lower are computed character by character as Python does.     *)
(* A tolerance is held in hundredths (5 stands for 0.05), so that          *)
(* int(len * (1 + tolerance)) is exact integer arithmetic.                 *)
(***************************************************************************)
EXTENDS Integers, Sequences, FiniteSets, TLC

VARIABLES
    e_pc,          \* position of the enforcer harness: "input" or "returned"
    original,      \* enforce_length_constraint: argument original
    rewritten,     \* enforce_length_constraint: argument rewritten (the candidate)
    tolerance,     \* enforce_length_constraint: argument tolerance, in hundredths
    e_result,      \* enforce_length_constraint: the returned string
    pc,            \* position of the engine run: "start", "extracted", ... "done"
    ext,           \* ".docx" or ".pdf": the format of file_bytes
    file_bytes,    \* the input document (the snapshot handed to both functions)
    rewrites,      \* the RewriteSet handed to inject_*_rewrites
    sections,      \* the value returned by extract_*_sections(file_bytes)
    optimized_bytes, \* the value returned by inject_*_rewrites
    doc,           \* inject_pdf_rewrites: the document opened from the input
    inj_sections,  \* inject_pdf_rewrites: its local variable sections
    coord_source,  \* the bytes that inj_sections was extracted from
    buf,           \* inject_pdf_rewrites: the redacted document as saved
    doc2,          \* inject_pdf_rewrites: the document reopened from buf
    page_i,        \* inject_pdf_rewrites: pages already handled by the apply loop
    ov_i,          \* inject_pdf_rewrites: pairs already handled by the overlay loops
    calls,         \* the page-level calls made so far, in order
    fn_pc,         \* position of the lookup harness: "input" or "returned"
    fn_name,       \* the function the lookup harness calls
    fn_arg,        \* its argument: a font name or the text of a line
    fn_ret,        \* the value it returned
    GROQ_API_KEY,  \* the environment: whether the key of the language model is set
    docx_bytes_ok, \* the environment: whether docx.Document opens a bytes object
    SESSION_STORE, \* routers/optimize.py: the dict SESSION_STORE
    requests,      \* the optimize requests: the locals of each call of the handler
    download       \* the response of the last download request

enforceVars == <<e_pc, original, rewritten, tolerance, e_result>>
pdfVars == <<doc, inj_sections, coord_source, buf, doc2, page_i, ov_i, calls>>
engineVars == <<pc, ext, file_bytes, rewrites, sections, optimized_bytes, pdfVars>>
fnVars == <<fn_pc, fn_name, fn_arg, fn_ret>>
routerVars == <<GROQ_API_KEY, docx_bytes_ok, SESSION_STORE, requests, download>>
vars == <<enforceVars, engineVars, fnVars, routerVars>>

(* The engine is not running *)
EngineIdle ==
    /\ pc = "idle"
    /\ ext = "none"
    /\ file_bytes = <<>>
    /\ rewrites = <<>>
    /\ sections = <<>>
    /\ optimized_bytes = <<>>
    /\ doc = <<>>
    /\ inj_sections = <<>>
    /\ coord_source = <<>>
    /\ buf = <<>>
    /\ doc2 = <<>>
    /\ page_i = 0
    /\ ov_i = 0
    /\ calls = <<>>

(* The enforcer harness is not running *)
EnforceIdle ==
    /\ e_pc = "idle"
    /\ original = <<>>
    /\ rewritten = <<>>
    /\ tolerance = 5
    /\ e_result = <<>>

(* The lookup harness is not running *)
FnIdle ==
    /\ fn_pc = "idle"
    /\ fn_name = "none"
    /\ fn_arg = <<>>
    /\ fn_ret = "none"

(* The router is not running *)
RouterIdle ==
    /\ GROQ_API_KEY = FALSE
    /\ docx_bytes_ok = FALSE
    /\ SESSION_STORE = <<>>
    /\ requests = <<>>
    /\ download = <<>>

----------------------------------------------------------------------------
(* Bounds of the enforcer's input domain *)
MaxOrigLen == 5
MaxCandLen == 6

(* Characters a candidate is drawn from: a letter, the space that rfind(" ") *)
(* looks for, and a tab (whitespace that is not a space).                    *)
CandChars == {"a", " ", "\t"}

(* Tolerances in hundredths: 0, the default 0.05, 0.25, 0.5 and 1.5 *)
Tolerances == {0, 5, 25, 50, 150}

----------------------------------------------------------------------------
(* Python helpers *)

(* int(num / den) for den > 0: Python's int() truncates toward zero *)
PyInt(num, den) ==
    IF num >= 0 THEN num \div den ELSE -((-num) \div den)

(* s[:n] for 0 <= n *)
Prefix(s, n) ==
    IF n >= Len(s) THEN s ELSE SubSeq(s, 1, n)

(* s.rfind(c): the greatest 0-based index holding c, or -1 *)
RFind(s, c) ==
    LET hits == {i \in 1..Len(s) : s[i] = c}
    IN  IF hits = {} THEN -1
        ELSE (CHOOSE i \in hits : \A j \in hits : j <= i) - 1

----------------------------------------------------------------------------
(* text_utils.enforce_length_constraint *)

(* Variant of max_len: the limit is one character too generous *)
max_len_plus_one(orig, tol) == PyInt(Len(orig) * (100 + tol), 100) + 1

max_len(orig, tol) == PyInt(Len(orig) * (100 + tol), 100)

(* Variant of min_len: the lower limit is one character too high *)
min_len_plus_one(orig, tol) == PyInt(Len(orig) * (100 - tol), 100) + 1

min_len(orig, tol) == PyInt(Len(orig) * (100 - tol), 100)

(* Variant of enforce_length_constraint: a too short candidate is padded *)
(* with a space, as the docstring of the function announces             *)
enforce_padding(orig, cand, tol) ==
    IF Len(cand) > max_len(orig, tol)
    THEN LET truncated == Prefix(cand, max_len(orig, tol))
             last_space == RFind(truncated, " ")
         IN  IF last_space > min_len(orig, tol)
             THEN Prefix(truncated, last_space)
             ELSE truncated
    ELSE IF Len(cand) < min_len(orig, tol) THEN cand \o <<" ">> ELSE cand

(* Variant of enforce_length_constraint: the boundary test is >= min_len *)
enforce_at_or_above(orig, cand, tol) ==
    IF Len(cand) > max_len(orig, tol)
    THEN LET truncated == Prefix(cand, max_len(orig, tol))
             last_space == RFind(truncated, " ")
         IN  IF last_space >= min_len(orig, tol)
             THEN Prefix(truncated, last_space)
             ELSE truncated
    ELSE cand

(* Variant of enforce_length_constraint: any space found is accepted as the *)
(* cut, without the comparison with min_len                                 *)
enforce_any_space(orig, cand, tol) ==
    IF Len(cand) > max_len(orig, tol)
    THEN LET truncated == Prefix(cand, max_len(orig, tol))
             last_space == RFind(truncated, " ")
         IN  IF last_space # -1
             THEN Prefix(truncated, last_space)
             ELSE truncated
    ELSE cand

enforce_length_constraint(orig, cand, tol) ==
    IF Len(cand) > max_len(orig, tol)
    THEN LET truncated == Prefix(cand, max_len(orig, tol))
             last_space == RFind(truncated, " ")
         IN  IF last_space > min_len(orig, tol)
             THEN Prefix(truncated, last_space)
             ELSE truncated
    ELSE cand

----------------------------------------------------------------------------
(* Harness of the enforcer: inputs drawn from bounded sets, one call *)

SeqsUpTo(S, n) == UNION {[1..k -> S] : k \in 0..n}

Originals == SeqsUpTo({"x"}, MaxOrigLen)
Candidates == SeqsUpTo(CandChars, MaxCandLen)

InitEnforce ==
    /\ e_pc = "input"
    /\ original \in Originals
    /\ rewritten \in Candidates
    /\ tolerance \in Tolerances
    /\ e_result = <<>>
    /\ EngineIdle
    /\ FnIdle
    /\ RouterIdle

EnforceCall ==
    /\ e_pc = "input"
    /\ e_result' = enforce_length_constraint(original, rewritten, tolerance)
    /\ e_pc' = "returned"
    /\ UNCHANGED <<original, rewritten, tolerance>>
    /\ UNCHANGED <<engineVars, fnVars, routerVars>>

NextEnforce == EnforceCall

SpecEnforce == InitEnforce /\ [][NextEnforce]_vars

----------------------------------------------------------------------------
(* The band of the specification, in exact arithmetic, independent of the  *)
(* operators that model the code                                           *)

FloorDiv(num, den) == num \div den
CeilDiv(num, den) == -((-num) \div den)

BandUpperCeil == CeilDiv(Len(original) * (100 + tolerance), 100)
BandUpperFloor == FloorDiv(Len(original) * (100 + tolerance), 100)
BandLowerFloor == FloorDiv(Len(original) * (100 - tolerance), 100)
BandLowerTrunc ==
    IF tolerance <= 100 THEN BandLowerFloor
    ELSE -FloorDiv(Len(original) * (tolerance - 100), 100)

Returned == e_pc = "returned"

(* C3: for every original, candidate and tolerance >= 0 the returned string *)
(* is no longer than ceil((1 + tolerance) * len(original)).                 *)
C3_UpperBound ==
    Returned => Len(e_result) <= BandUpperCeil

(* C3 witness: a candidate longer than the upper bound has been cut *)
C3_Witness ==
    /\ Returned
    /\ Len(rewritten) > BandUpperCeil
    /\ Len(e_result) < Len(rewritten)
    /\ Len(e_result) > 0

BoundariesBefore(n, ws) ==
    {i \in 0..(n - 1) : i < Len(rewritten) /\ rewritten[i + 1] \in ws}

SetMax(S) == CHOOSE i \in S : \A j \in S : j <= i

C5_WitnessAtMin ==
    /\ Returned
    /\ Len(rewritten) > BandUpperFloor
    /\ BoundariesBefore(BandUpperFloor, {" "}) # {}
    /\ SetMax(BoundariesBefore(BandUpperFloor, {" "})) = BandLowerTrunc
    /\ Len(e_result) = BandUpperFloor

(* C6: when the candidate is at least floor((1 - tolerance) * len) long, the *)
(* length of the result lies in                                              *)
(* [floor((1 - tolerance) * len), ceil((1 + tolerance) * len)].              *)
C6_InsideBand ==
    (Returned /\ Len(rewritten) >= BandLowerFloor) =>
        /\ BandLowerFloor <= Len(e_result)
        /\ Len(e_result) <= BandUpperCeil

(* C6 witness: a too long candidate with an early space was cut, and the  *)
(* result is inside the band                                               *)
C6_Witness ==
    /\ Returned
    /\ Len(rewritten) > BandUpperCeil
    /\ BandLowerFloor > 0
    /\ BoundariesBefore(BandLowerFloor, {" "}) # {}
    /\ Len(e_result) >= BandLowerFloor

----------------------------------------------------------------------------
(* Python string helpers used by the classifiers *)

UpperLetters ==
    <<"A", "B", "C", "D", "E", "F", "G", "H", "I", "J", "K", "L", "M",
      "N", "O", "P", "Q", "R", "S", "T", "U", "V", "W", "X", "Y", "Z">>
LowerLetters ==
    <<"a", "b", "c", "d", "e", "f", "g", "h", "i", "j", "k", "l", "m",
      "n", "o", "p", "q", "r", "s", "t", "u", "v", "w", "x", "y", "z">>
Digits == {"0", "1", "2", "3", "4", "5", "6", "7", "8", "9"}

(* The characters str.strip() and str.split() treat as whitespace *)
Whitespace == {" ", "\t", "\n"}

LowerChar(c) ==
    IF \E i \in 1..26 : UpperLetters[i] = c
    THEN LowerLetters[CHOOSE i \in 1..26 : UpperLetters[i] = c]
    ELSE c

(* s.lower() *)
Lower(s) == [i \in 1..Len(s) |-> LowerChar(s[i])]

(* s.strip() *)
Strip(s) ==
    LET keep == {i \in 1..Len(s) : s[i] \notin Whitespace}
    IN  IF keep = {} THEN <<>>
        ELSE LET first == CHOOSE i \in keep : \A j \in keep : i <= j
                 last == CHOOSE i \in keep : \A j \in keep : j <= i
             IN  SubSeq(s, first, last)

(* sub in s *)
Contains(s, sub) ==
    \E k \in 0..(Len(s) - Len(sub)) : \A j \in 1..Len(sub) : s[k + j] = sub[j]

(* "".join(parts) *)
RECURSIVE Concat(_)
Concat(parts) ==
    IF parts = <<>> THEN <<>> ELSE Head(parts) \o Concat(Tail(parts))

(* sep.join(parts) *)
RECURSIVE Join(_, _)
Join(parts, sep) ==
    IF parts = <<>> THEN <<>>
    ELSE IF Len(parts) = 1 THEN Head(parts)
    ELSE Head(parts) \o sep \o Join(Tail(parts), sep)

----------------------------------------------------------------------------
(* Run-oriented documents (python-docx).  A document is the sequence of its *)
(* paragraphs; a paragraph has a style name and runs; a run has its text,   *)
(* its bold flag ("True", "False" or "None") and its remaining formatting.  *)

(* docx_engine.py: the keyword sets *)
DOCX_SUMMARY_KEYWORDS ==
    { <<"s", "u", "m", "m", "a", "r", "y">>,
      <<"p", "r", "o", "f", "e", "s", "s", "i", "o", "n", "a", "l", " ", "s", "u", "m", "m", "a", "r", "y">>,
      <<"p", "r", "o", "f", "i", "l", "e">>,
      <<"o", "b", "j", "e", "c", "t", "i", "v", "e">>,
      <<"a", "b", "o", "u", "t", " ", "m", "e">>,
      <<"o", "v", "e", "r", "v", "i", "e", "w">> }
DOCX_EXPERIENCE_KEYWORDS ==
    { <<"e", "x", "p", "e", "r", "i", "e", "n", "c", "e">>,
      <<"w", "o", "r", "k", " ", "e", "x", "p", "e", "r", "i", "e", "n", "c", "e">>,
      <<"p", "r", "o", "f", "e", "s", "s", "i", "o", "n", "a", "l", " ", "e", "x", "p", "e", "r", "i", "e", "n", "c", "e">>,
      <<"e", "m", "p", "l", "o", "y", "m", "e", "n", "t">>,
      <<"c", "a", "r", "e", "e", "r">> }
DOCX_STOP_KEYWORDS ==
    { <<"e", "d", "u", "c", "a", "t", "i", "o", "n">>,
      <<"s", "k", "i", "l", "l", "s">>,
      <<"c", "e", "r", "t", "i", "f", "i", "c", "a", "t", "i", "o", "n", "s">>,
      <<"p", "r", "o", "j", "e", "c", "t", "s">>,
      <<"a", "w", "a", "r", "d", "s">>,
      <<"l", "a", "n", "g", "u", "a", "g", "e", "s">>,
      <<"r", "e", "f", "e", "r", "e", "n", "c", "e", "s">>,
      <<"v", "o", "l", "u", "n", "t", "e", "e", "r">> }

(* The length below which a line that is a keyword counts as a heading *)
DocxHeadingMaxLen == 60

(* para.text *)
ParaText(para) == Concat([r \in 1..Len(para.runs) |-> para.runs[r].text])

(* _para_text_lower *)
_para_text_lower(para) == Lower(Strip(ParaText(para)))

(* The runs of a paragraph that carry text: run.text.strip() is not empty *)
TextRuns(para) == {r \in 1..Len(para.runs) : Strip(para.runs[r].text) # <<>>}

(* _is_heading *)
_is_heading(para) ==
    \/ Contains(Lower(para.style), <<"h", "e", "a", "d", "i", "n", "g">>)
    \/ /\ Strip(ParaText(para)) # <<>>
       /\ \A r \in TextRuns(para) : para.runs[r].bold = "True"

(* Variant of DocxIsHeadingUnit: every short paragraph is a heading, keyword *)
(* or not                                                                    *)
DocxIsHeadingUnit_short(para) ==
    LET text == Strip(ParaText(para))
    IN  /\ text # <<>>
        /\ (_is_heading(para) \/ Len(text) < DocxHeadingMaxLen)

(* The test of extract_docx_sections that makes a paragraph a heading *)
DocxIsHeadingUnit(para) ==
    LET text == Strip(ParaText(para))
    IN  /\ text # <<>>
        /\ \/ _is_heading(para)
           \/ /\ Len(text) < DocxHeadingMaxLen
              /\ Lower(text) \in DOCX_SUMMARY_KEYWORDS \cup DOCX_EXPERIENCE_KEYWORDS
                                    \cup DOCX_STOP_KEYWORDS

(* Variant of DocxSectionAfterHeading: a stop heading leaves the section open *)
DocxSectionAfterHeading_no_stop(text_lower, current_section) ==
    IF text_lower \in DOCX_SUMMARY_KEYWORDS THEN "summary"
    ELSE IF text_lower \in DOCX_EXPERIENCE_KEYWORDS THEN "experience"
    ELSE current_section

(* Variant of DocxSectionAfterHeading: a heading that is no keyword closes *)
(* the section                                                            *)
DocxSectionAfterHeading_reset(text_lower, current_section) ==
    IF text_lower \in DOCX_SUMMARY_KEYWORDS THEN "summary"
    ELSE IF text_lower \in DOCX_EXPERIENCE_KEYWORDS THEN "experience"
    ELSE "None"

(* current_section after a heading with text text_lower *)
DocxSectionAfterHeading(text_lower, current_section) ==
    IF text_lower \in DOCX_SUMMARY_KEYWORDS THEN "summary"
    ELSE IF text_lower \in DOCX_EXPERIENCE_KEYWORDS THEN "experience"
    ELSE IF text_lower \in DOCX_STOP_KEYWORDS THEN "None"
    ELSE current_section

(* The entries appended for one captured paragraph: one per text-bearing run *)
RECURSIVE DocxRunEntries(_, _, _)
DocxRunEntries(para, para_idx, run_idx) ==
    IF run_idx >= Len(para.runs) THEN <<>>
    ELSE LET run == para.runs[run_idx + 1]
             rest == DocxRunEntries(para, para_idx, run_idx + 1)
         IN  IF Strip(run.text) # <<>>
             THEN <<[para_idx |-> para_idx, run_idx |-> run_idx, text |-> run.text]>>
                  \o rest
             ELSE rest

(* Variant of DocxAllTextPart: the text is collected without strip() *)
DocxAllTextPart_raw(para) == ParaText(para)

(* The part of all_text that one paragraph contributes: para.text.strip() *)
DocxAllTextPart(para) == Strip(ParaText(para))

(* The loop of extract_docx_sections from paragraph para_idx (0-based) on *)
RECURSIVE DocxExtractLoop(_, _, _, _, _, _)
DocxExtractLoop(paras, para_idx, current_section, summary, experience, all_text_parts) ==
    IF para_idx >= Len(paras)
    THEN [summary |-> summary, experience |-> experience,
          all_text |-> Join(all_text_parts, <<"\n">>)]
    ELSE LET para == paras[para_idx + 1]
             text == Strip(ParaText(para))
             parts == Append(all_text_parts, DocxAllTextPart(para))
         IN  IF text = <<>>
             THEN DocxExtractLoop(paras, para_idx + 1, current_section,
                                  summary, experience, parts)
             ELSE IF DocxIsHeadingUnit(para)
             THEN DocxExtractLoop(paras, para_idx + 1,
                                  DocxSectionAfterHeading(Lower(text), current_section),
                                  summary, experience, parts)
             ELSE IF current_section = "summary"
             THEN DocxExtractLoop(paras, para_idx + 1, current_section,
                                  summary \o DocxRunEntries(para, para_idx, 0),
                                  experience, parts)
             ELSE IF current_section = "experience"
             THEN DocxExtractLoop(paras, para_idx + 1, current_section,
                                  summary,
                                  experience \o DocxRunEntries(para, para_idx, 0), parts)
             ELSE DocxExtractLoop(paras, para_idx + 1, current_section,
                                  summary, experience, parts)

(* extract_docx_sections *)
extract_docx_sections(bytes) ==
    DocxExtractLoop(bytes, 0, "None", <<>>, <<>>, <<>>)

(* The tolerance inject_*_rewrites is called with: the default 0.05 *)
DefaultTolerance == 5

(* Variant of DocxSetRunText: the run is rebuilt with default formatting *)
DocxSetRunText_rebuild(d, para_idx, run_idx, new_text) ==
    [d EXCEPT ![para_idx + 1].runs[run_idx + 1] =
        [text |-> new_text, bold |-> "None", fmt |-> "default"]]

(* run.text = new_text: only the text of the run changes *)
DocxSetRunText(d, para_idx, run_idx, new_text) ==
    [d EXCEPT ![para_idx + 1].runs[run_idx + 1].text = new_text]

(* The loop over the entries of one section, from entry i (0-based) on *)
RECURSIVE DocxInjectLoop(_, _, _, _, _)
DocxInjectLoop(d, entries, new_texts, i, tol) ==
    IF i >= Len(entries) \/ i >= Len(new_texts) THEN d
    ELSE LET entry == entries[i + 1]
             new_text == enforce_length_constraint(entry.text, new_texts[i + 1], tol)
         IN  DocxInjectLoop(
                 DocxSetRunText(d, entry.para_idx, entry.run_idx, new_text),
                 entries, new_texts, i + 1, tol)

(* inject_docx_rewrites *)
inject_docx_rewrites(bytes, rw, tol) ==
    LET secs == extract_docx_sections(bytes)
        after_summary == DocxInjectLoop(bytes, secs.summary, rw.summary, 0, tol)
    IN  DocxInjectLoop(after_summary, secs.experience, rw.experience, 0, tol)

----------------------------------------------------------------------------
(* Geometry-oriented documents (PyMuPDF).  A document is the sequence of its *)
(* pages; a page has the blocks of its content stream, its pending redaction *)
(* annotations and the texts drawn on it by insert_text; a block has a type  *)
(* (0: text) and lines; a line has spans; a span has text, bbox, size, font, *)
(* color and origin.                                                         *)

(* _match_section: the length above which a line is no heading *)
PdfHeadingMaxLen == 50

(* _match_section: the trigger vocabularies *)
summary_triggers ==
    { <<"s", "u", "m", "m", "a", "r", "y">>, <<"p", "r", "o", "f", "i", "l", "e">>, <<"o", "b", "j", "e", "c", "t", "i", "v", "e">>, <<"a", "b", "o", "u", "t">>, <<"o", "v", "e", "r", "v", "i", "e", "w">> }
experience_triggers ==
    { <<"e", "x", "p", "e", "r", "i", "e", "n", "c", "e">>, <<"h", "i", "s", "t", "o", "r", "y">>, <<"e", "m", "p", "l", "o", "y", "m", "e", "n", "t">>, <<"w", "o", "r", "k">>, <<"c", "a", "r", "e", "e", "r">> }
stop_triggers ==
    { <<"e", "d", "u", "c", "a", "t", "i", "o", "n">>, <<"s", "k", "i", "l", "l", "s">>, <<"c", "e", "r", "t", "s">>, <<"p", "r", "o", "j", "e", "c", "t", "s">>, <<"a", "w", "a", "r", "d", "s">>,
      <<"r", "e", "f", "e", "r", "e", "n", "c", "e", "s">>, <<"l", "a", "n", "g", "u", "a", "g", "e", "s">>, <<"l", "i", "n", "k", "s">>, <<"i", "n", "t", "e", "r", "e", "s", "t", "s">> }

(* re.sub(r'[^a-z0-9 ]', ' ', t) *)
SubSymbols(t) ==
    [i \in 1..Len(t) |->
        IF \/ \E k \in 1..26 : LowerLetters[k] = t[i]
           \/ t[i] \in Digits
           \/ t[i] = " "
        THEN t[i] ELSE " "]

(* set(t.split()) *)
Words(t) ==
    LET bounds == {ij \in (1..Len(t)) \X (1..Len(t)) :
                     /\ ij[1] <= ij[2]
                     /\ \A k \in ij[1]..ij[2] : t[k] \notin Whitespace
                     /\ (ij[1] = 1 \/ t[ij[1] - 1] \in Whitespace)
                     /\ (ij[2] = Len(t) \/ t[ij[2] + 1] \in Whitespace)}
    IN  {SubSeq(t, ij[1], ij[2]) : ij \in bounds}

(* Variant of _match_section: the experience vocabulary is tried first *)
_match_section_experience_first(text) ==
    LET t == Strip(SubSymbols(Lower(Strip(text))))
    IN  IF t = <<>> \/ Len(t) > PdfHeadingMaxLen THEN "None"
        ELSE IF Words(t) \cap experience_triggers # {} THEN "experience"
        ELSE IF Words(t) \cap summary_triggers # {} THEN "summary"
        ELSE IF Words(t) \cap stop_triggers # {} THEN "stop"
        ELSE "None"

(* _match_section *)
_match_section(text) ==
    LET t == Strip(SubSymbols(Lower(Strip(text))))
    IN  IF t = <<>> \/ Len(t) > PdfHeadingMaxLen THEN "None"
        ELSE IF Words(t) \cap summary_triggers # {} THEN "summary"
        ELSE IF Words(t) \cap experience_triggers # {} THEN "experience"
        ELSE IF Words(t) \cap stop_triggers # {} THEN "stop"
        ELSE "None"

(* The font name a built-in face is stored under *)
BuiltinFontName(f) ==
    CASE f = "helv" -> <<"H", "e", "l", "v", "e", "t", "i", "c", "a">>
      [] f = "tiro" -> <<"T", "i", "m", "e", "s", "-", "R", "o", "m", "a", "n">>
      [] f = "tibo" -> <<"T", "i", "m", "e", "s", "-", "B", "o", "l", "d", "I", "t", "a", "l", "i", "c">>
      [] f = "tiit" -> <<"T", "i", "m", "e", "s", "-", "I", "t", "a", "l", "i", "c">>

(* The text block that insert_text leaves in the content stream *)
DrawnBlock(d) ==
    [type |-> 0,
     lines |-> << [spans |-> << [text |-> d.text,
                                 bbox |-> <<d.origin[1], d.origin[2] - d.fontsize,
                                            d.origin[1] + Len(d.text), d.origin[2]>>,
                                 size |-> d.fontsize,
                                 font |-> BuiltinFontName(d.fontname),
                                 color |-> d.color[1] * 65536 + d.color[2] * 256
                                           + d.color[3],
                                 origin |-> d.origin] >>] >>]

(* page.get_text("dict")["blocks"] *)
PageBlocks(page) ==
    page.blocks \o [k \in 1..Len(page.drawn) |-> DrawnBlock(page.drawn[k])]

(* The lines of the text blocks of one page, in order, each with its page *)
(* number and the index of its block                                      *)
RECURSIVE PdfBlockLines(_, _, _)
PdfBlockLines(blocks, page_num, block_idx) ==
    IF block_idx >= Len(blocks) THEN <<>>
    ELSE LET block == blocks[block_idx + 1]
             here == IF block.type # 0 THEN <<>>
                     ELSE [k \in 1..Len(block.lines) |->
                              [page |-> page_num, block_idx |-> block_idx,
                               spans |-> block.lines[k].spans]]
         IN  here \o PdfBlockLines(blocks, page_num, block_idx + 1)

(* The lines of a document in the order the three nested loops visit them *)
RECURSIVE PdfLines(_, _)
PdfLines(bytes, page_num) ==
    IF page_num >= Len(bytes) THEN <<>>
    ELSE PdfBlockLines(PageBlocks(bytes[page_num + 1]), page_num, 0)
         \o PdfLines(bytes, page_num + 1)

(* "".join(s.get("text", "") for s in line["spans"]).strip() *)
LineText(line) == Strip(Concat([k \in 1..Len(line.spans) |-> line.spans[k].text]))

(* The entries of one captured line: one per span with non-blank text *)
PdfSpanEntries(line) ==
    LET entry(span) ==
            [page |-> line.page, rect |-> span.bbox, text |-> span.text,
             fontsize |-> span.size, fontname |-> span.font, color |-> span.color,
             block_idx |-> line.block_idx, origin |-> span.origin]
    IN  [k \in 1..Len(SelectSeq(line.spans, LAMBDA sp : Strip(sp.text) # <<>>)) |->
            entry(SelectSeq(line.spans, LAMBDA sp : Strip(sp.text) # <<>>)[k])]

EntryTexts(entries) == [k \in 1..Len(entries) |-> entries[k].text]

(* Variant of SpanTexts: the whitespace-only spans of the line are left out *)
SpanTexts_nonblank(line) ==
    LET kept == SelectSeq(line.spans, LAMBDA sp : Strip(sp.text) # <<>>)
    IN  [k \in 1..Len(kept) |-> kept[k].text]

(* The texts of all spans of a line that is in no section *)
SpanTexts(line) == [k \in 1..Len(line.spans) |-> line.spans[k].text]

(* Variant of PdfExtractLoop: current_section starts again at None on every *)
(* page                                                                     *)
RECURSIVE PdfExtractLoop_page_reset(_, _, _, _, _, _)
PdfExtractLoop_page_reset(lines, n, current_section, summary, experience, all_text_parts) ==
    IF n >= Len(lines)
    THEN [summary |-> summary, experience |-> experience,
          all_text |-> Join(all_text_parts, <<"\n">>)]
    ELSE LET line == lines[n + 1]
             match == _match_section(LineText(line))
             section == IF n > 0 /\ lines[n].page # line.page THEN "None"
                        ELSE current_section
         IN  IF match # "None"
             THEN PdfExtractLoop_page_reset(lines, n + 1,
                                 IF match # "stop" THEN match ELSE "None",
                                 summary, experience, all_text_parts)
             ELSE IF section = "summary"
             THEN PdfExtractLoop_page_reset(lines, n + 1, section,
                                 summary \o PdfSpanEntries(line), experience,
                                 all_text_parts \o EntryTexts(PdfSpanEntries(line)))
             ELSE IF section = "experience"
             THEN PdfExtractLoop_page_reset(lines, n + 1, section,
                                 summary, experience \o PdfSpanEntries(line),
                                 all_text_parts \o EntryTexts(PdfSpanEntries(line)))
             ELSE PdfExtractLoop_page_reset(lines, n + 1, section,
                                 summary, experience,
                                 all_text_parts \o SpanTexts(line))

(* The loop of extract_pdf_sections over the lines, from line n (0-based) on *)
RECURSIVE PdfExtractLoop(_, _, _, _, _, _)
PdfExtractLoop(lines, n, current_section, summary, experience, all_text_parts) ==
    IF n >= Len(lines)
    THEN [summary |-> summary, experience |-> experience,
          all_text |-> Join(all_text_parts, <<"\n">>)]
    ELSE LET line == lines[n + 1]
             match == _match_section(LineText(line))
         IN  IF match # "None"
             THEN PdfExtractLoop(lines, n + 1,
                                 IF match # "stop" THEN match ELSE "None",
                                 summary, experience, all_text_parts)
             ELSE IF current_section = "summary"
             THEN PdfExtractLoop(lines, n + 1, current_section,
                                 summary \o PdfSpanEntries(line), experience,
                                 all_text_parts \o EntryTexts(PdfSpanEntries(line)))
             ELSE IF current_section = "experience"
             THEN PdfExtractLoop(lines, n + 1, current_section,
                                 summary, experience \o PdfSpanEntries(line),
                                 all_text_parts \o EntryTexts(PdfSpanEntries(line)))
             ELSE PdfExtractLoop(lines, n + 1, current_section,
                                 summary, experience,
                                 all_text_parts \o SpanTexts(line))

(* extract_pdf_sections *)
extract_pdf_sections(bytes) ==
    PdfExtractLoop(PdfLines(bytes, 0), 0, "None", <<>>, <<>>, <<>>)

(* Variant of _map_font: without a keyword the serif face is returned *)
_map_font_serif_default(fontname) ==
    LET name == Lower(fontname)
        has(keys) == \E k \in keys : Contains(name, k)
    IN  IF has({ <<"b", "o", "l", "d">>, <<"h", "e", "a", "v", "y">>, <<"b", "l", "a", "c", "k">> })
        THEN IF has({ <<"i", "t", "a", "l", "i", "c">>, <<"o", "b", "l", "i", "q", "u", "e">> }) THEN "tibo" ELSE "helv"
        ELSE IF has({ <<"i", "t", "a", "l", "i", "c">>, <<"o", "b", "l", "i", "q", "u", "e">> }) THEN "tiit"
        ELSE "tiro"

(* _map_font *)
_map_font(fontname) ==
    LET name == Lower(fontname)
        has(keys) == \E k \in keys : Contains(name, k)
    IN  IF has({ <<"b", "o", "l", "d">>, <<"h", "e", "a", "v", "y">>, <<"b", "l", "a", "c", "k">> })
        THEN IF has({ <<"i", "t", "a", "l", "i", "c">>, <<"o", "b", "l", "i", "q", "u", "e">> }) THEN "tibo" ELSE "helv"
        ELSE IF has({ <<"i", "t", "a", "l", "i", "c">>, <<"o", "b", "l", "i", "q", "u", "e">> }) THEN "tiit"
        ELSE IF has({ <<"t", "i", "m", "e", "s">>, <<"s", "e", "r", "i", "f">>, <<"g", "e", "o", "r", "g", "i", "a">>, <<"g", "a", "r", "a", "m", "o", "n", "d">> }) THEN "tiro"
        ELSE "helv"

(* The channels of a 0xRRGGBB color, each as a numerator over 255 *)
DecodeColor(raw_color) ==
    <<(raw_color \div 65536) % 256, (raw_color \div 256) % 256, raw_color % 256>>

(* Variant of PdfSectionPairs: a section is only handled when the lengths match *)
PdfSectionPairs_same_length(entries, new_texts) ==
    IF Len(entries) # Len(new_texts) THEN <<>>
    ELSE [k \in 1..Len(entries) |-> [entry |-> entries[k], new_text |-> new_texts[k]]]

(* The pairs the loops of inject_pdf_rewrites handle for one section: entry *)
(* i with new_texts[i], for i below both lengths                            *)
PdfSectionPairs(entries, new_texts) ==
    LET n == IF Len(entries) <= Len(new_texts) THEN Len(entries) ELSE Len(new_texts)
    IN  [k \in 1..n |-> [entry |-> entries[k], new_text |-> new_texts[k]]]

(* The pairs in the order of the loops: Summary, then Experience *)
PdfPairs(secs, rw) ==
    PdfSectionPairs(secs.summary, rw.summary)
    \o PdfSectionPairs(secs.experience, rw.experience)

RectsIntersect(a, b) ==
    /\ a[1] < b[3] /\ b[1] < a[3]
    /\ a[2] < b[4] /\ b[2] < a[4]

(* page.add_redact_annot(rect, fill=(1, 1, 1)) for every pair *)
RECURSIVE AddRedactAnnots(_, _, _)
AddRedactAnnots(d, pairs, k) ==
    IF k > Len(pairs) THEN d
    ELSE LET entry == pairs[k].entry
         IN  AddRedactAnnots(
                 [d EXCEPT ![entry.page + 1].annots = @ \cup {entry.rect}],
                 pairs, k + 1)

(* page.apply_redactions(): what lies under an annotation is removed from  *)
(* the content stream, drawn text included, and the annotations are gone   *)
ApplyRedactions(page) ==
    LET hit(bbox) == \E a \in page.annots : RectsIntersect(a, bbox)
        keepSpans(line) == [spans |-> SelectSeq(line.spans, LAMBDA sp : ~hit(sp.bbox))]
        keepLines(block) ==
            IF block.type # 0 THEN block
            ELSE [type |-> 0,
                  lines |-> SelectSeq([k \in 1..Len(block.lines) |->
                                          keepSpans(block.lines[k])],
                                      LAMBDA ln : ln.spans # <<>>)]
        blocks == SelectSeq([k \in 1..Len(page.blocks) |-> keepLines(page.blocks[k])],
                            LAMBDA b : b.type # 0 \/ b.lines # <<>>)
        drawn == SelectSeq(page.drawn,
                           LAMBDA d : ~hit(DrawnBlock(d).lines[1].spans[1].bbox))
    IN  [blocks |-> blocks, annots |-> {}, drawn |-> drawn]

(* page.insert_text(origin, new_text, fontname, fontsize, color) for one pair *)
InsertText(d, pair, tol) ==
    LET entry == pair.entry
        new_text == enforce_length_constraint(entry.text, pair.new_text, tol)
    IN  [d EXCEPT ![entry.page + 1].drawn =
            Append(@, [origin |-> entry.origin,
                       text |-> new_text,
                       fontname |-> _map_font(entry.fontname),
                       fontsize |-> entry.fontsize,
                       color |-> DecodeColor(entry.color)])]

(* The overlay loops of inject_pdf_rewrites from pair k on *)
RECURSIVE PdfOverlayLoop(_, _, _, _)
PdfOverlayLoop(d, pairs, k, tol) ==
    IF k > Len(pairs) THEN d
    ELSE PdfOverlayLoop(InsertText(d, pairs[k], tol), pairs, k + 1, tol)

(* inject_pdf_rewrites, from the call to the returned bytes *)
inject_pdf_rewrites(bytes, rw, tol) ==
    LET marked == AddRedactAnnots(bytes, PdfPairs(extract_pdf_sections(bytes), rw), 1)
        redacted == [p \in 1..Len(marked) |-> ApplyRedactions(marked[p])]
    IN  PdfOverlayLoop(redacted, PdfPairs(extract_pdf_sections(bytes), rw), 1, tol)

(* get_full_docx_text *)
get_full_docx_text(bytes) ==
    Join([k \in 1..Len(SelectSeq(bytes, LAMBDA para : Strip(ParaText(para)) # <<>>)) |->
             ParaText(SelectSeq(bytes, LAMBDA para : Strip(ParaText(para)) # <<>>)[k])],
         <<"\n">>)

(* get_full_pdf_text: page.get_text() gives the lines of the text blocks, *)
(* each followed by a line break                                         *)
get_full_pdf_text(bytes) ==
    Concat([n \in 1..Len(PdfLines(bytes, 0)) |->
               Concat(SpanTexts(PdfLines(bytes, 0)[n])) \o <<"\n">>])

----------------------------------------------------------------------------
(* Inputs of the engine *)

MaxParas == 3
MaxRewrites == 2

Run(text, bold, fmt) == [text |-> text, bold |-> bold, fmt |-> fmt]
Para(style, runs) == [style |-> style, runs |-> runs]

StyleNormal == <<"N", "o", "r", "m", "a", "l">>
StyleHeading2 == <<"H", "e", "a", "d", "i", "n", "g", " ", "2">>

(* The paragraphs documents are made of: a bold line "Summary", a line in a   *)
(* heading style " EXPERIENCE ", a plain line "Skills", a bold line "Notes",  *)
(* a paragraph of a blank run and two formatted runs, a paragraph of one run  *)
(* of 20 characters, and an empty paragraph.                                  *)
DocxParagraphs ==
    { Para(StyleNormal, <<Run(<<"S", "u", "m", "m", "a", "r", "y">>, "True", "Calibri 14")>>),
      Para(StyleHeading2, <<Run(<<" ", "E", "X", "P", "E", "R", "I", "E", "N", "C", "E", " ">>, "None", "Calibri 12")>>),
      Para(StyleNormal, <<Run(<<"S", "k", "i", "l", "l", "s">>, "False", "Calibri 11")>>),
      Para(StyleNormal, <<Run(<<"N", "o", "t", "e", "s">>, "True", "Calibri 11")>>),
      Para(StyleNormal, <<Run(<<" ", " ">>, "False", "Calibri 11"),
                          Run(<<"B", "u", "i", "l", "t", " ">>, "True", "Arial 10 italic"),
                          Run(<<"a", "p", "p", "s", ".">>, "None", "Arial 10")>>),
      Para(StyleNormal, <<Run(<<"L", "e", "d", " ", "t", "e", "a", "m", " ", "o", "f", " ", "5", " ", "a", "t", " ", "H", "P", ".">>, "False", "Times 11")>>),
      Para(StyleNormal, <<>>) }

DocxDocuments == SeqsUpTo(DocxParagraphs, MaxParas)

MaxPages == 2

(* A span of text set at (x, y) *)
Sp(text, x, y, size, font, color) ==
    [text |-> text, bbox |-> <<x, y, x + Len(text), y + size>>, size |-> size,
     font |-> font, color |-> color, origin |-> <<x, y + size - 2>>]
Line(spans) == [spans |-> spans]
TextBlock(lines) == [type |-> 0, lines |-> lines]
ImageBlock == [type |-> 1, lines |-> <<>>]
Page(blocks) == [blocks |-> blocks, annots |-> {}, drawn |-> <<>>]

FontArialBold == <<"A", "r", "i", "a", "l", "-", "B", "o", "l", "d", "M", "T">>
FontCalibri == <<"C", "a", "l", "i", "b", "r", "i">>
FontTimesItalic == <<"T", "i", "m", "e", "s", "N", "e", "w", "R", "o", "m", "a", "n", "P", "S", "-", "I", "t", "a", "l", "i", "c", "M", "T">>
FontGeorgia == <<"G", "e", "o", "r", "g", "i", "a">>

BlockName ==
    TextBlock(<<Line(<<Sp(<<"J", "a", "n", "e", " ", "D", "o", "e">>, 10, 0, 14, FontArialBold, 0)>>)>>)
BlockSummaryHead ==
    TextBlock(<<Line(<<Sp(<<"S", "U", "M", "M", "A", "R", "Y">>, 10, 20, 12, FontArialBold, 2051705)>>)>>)
BlockBody ==
    TextBlock(<<Line(<<Sp(<<"B", "u", "i", "l", "t", " ">>, 10, 40, 10, FontCalibri, 0),
                       Sp(<<"a", "p", "p", "s", ".">>, 16, 40, 10, FontTimesItalic, 255)>>),
                Line(<<Sp(<<" ">>, 10, 50, 10, FontCalibri, 0)>>)>>)
BlockHistory ==
    TextBlock(<<Line(<<Sp(<<"W", "o", "r", "k", " ">>, 10, 60, 12, FontArialBold, 0),
                       Sp(<<"H", "i", "s", "t", "o", "r", "y", ":">>, 15, 60, 12, FontArialBold, 0)>>),
                Line(<<Sp(<<"L", "e", "d", " ", "t", "e", "a", "m", " ", "o", "f", " ", "5", " ", "a", "t", " ", "H", "P", ".">>, 10, 72, 10, FontGeorgia, 0)>>)>>)
BlockHistoryHead ==
    TextBlock(<<Line(<<Sp(<<"W", "o", "r", "k", " ", "E", "x", "p", "e", "r", "i", "e", "n", "c", "e">>, 10, 90, 12, FontArialBold, 0)>>)>>)
BlockSkillsHead ==
    TextBlock(<<Line(<<Sp(<<"S", "k", "i", "l", "l", "s", " ", "&", " ", "T", "o", "o", "l", "s">>, 10, 20, 12, FontArialBold, 0)>>)>>)

(* The pages documents are made of: an empty page; name, summary heading and *)
(* body; an image and a block that starts with an experience heading; a body *)
(* alone; a stop heading and a body; a body and an experience heading as the *)
(* last line of the page.                                                    *)
PdfPages ==
    { Page(<<>>),
      Page(<<BlockName, BlockSummaryHead, BlockBody>>),
      Page(<<ImageBlock, BlockHistory>>),
      Page(<<BlockBody>>),
      Page(<<BlockSkillsHead, BlockBody>>),
      Page(<<BlockBody, BlockHistoryHead>>) }

PdfDocuments == SeqsUpTo(PdfPages, MaxPages) \ {<<>>}

Documents(e) == IF e = ".docx" THEN DocxDocuments ELSE PdfDocuments

(* Replacement texts: one of 32 characters, one of 3, one of 11 with a tab *)
CandidateTexts ==
    << <<"D", "i", "r", "e", "c", "t", "e", "d", " ", "f", "i", "v", "e", " ", "p", "e", "o", "p", "l", "e", " ", "a", "t", " ", "H", "P", " ", "L", "a", "b", "s", ".">>,
       <<"D", "e", "v">>,
       <<"M", "a", "d", "e", "\t", "w", "e", "b", " ", "U", "I">> >>

(* The sequence of k replacement texts that starts at CandidateTexts[first] *)
NewTexts(first, k) ==
    [i \in 1..k |-> CandidateTexts[((first + i - 2) % Len(CandidateTexts)) + 1]]

(* A RewriteSet: up to MaxRewrites texts for each section, the Summary list *)
(* starting with the long text and the Experience list with the short one  *)
RewriteSets ==
    {[summary |-> NewTexts(1, ks), experience |-> NewTexts(2, ke)] :
        ks \in 0..MaxRewrites, ke \in 0..MaxRewrites}

----------------------------------------------------------------------------
(* The engine: extract_*_sections, then inject_*_rewrites, on one input *)

InitEngine ==
    /\ pc = "start"
    /\ ext \in {".docx", ".pdf"}
    /\ file_bytes \in Documents(ext)
    /\ rewrites = <<>>
    /\ sections = <<>>
    /\ optimized_bytes = <<>>
    /\ doc = <<>>
    /\ inj_sections = <<>>
    /\ coord_source = <<>>
    /\ buf = <<>>
    /\ doc2 = <<>>
    /\ page_i = 0
    /\ ov_i = 0
    /\ calls = <<>>
    /\ EnforceIdle
    /\ FnIdle
    /\ RouterIdle

(* extract_docx_sections(file_bytes) *)
ExtractDocx ==
    /\ pc = "start"
    /\ ext = ".docx"
    /\ sections' = extract_docx_sections(file_bytes)
    /\ pc' = "extracted"
    /\ UNCHANGED <<ext, file_bytes, rewrites, optimized_bytes, pdfVars, enforceVars, fnVars, routerVars>>

(* inject_docx_rewrites(file_bytes, rewrites), for any RewriteSet *)
InjectDocx ==
    /\ pc = "extracted"
    /\ ext = ".docx"
    /\ rewrites' \in RewriteSets
    /\ optimized_bytes' = inject_docx_rewrites(file_bytes, rewrites', DefaultTolerance)
    /\ pc' = "done"
    /\ UNCHANGED <<ext, file_bytes, sections, pdfVars, enforceVars, fnVars, routerVars>>

(* extract_pdf_sections(file_bytes) *)
ExtractPdf ==
    /\ pc = "start"
    /\ ext = ".pdf"
    /\ sections' = extract_pdf_sections(file_bytes)
    /\ pc' = "extracted"
    /\ UNCHANGED <<ext, file_bytes, rewrites, optimized_bytes, pdfVars, enforceVars, fnVars, routerVars>>

(* inject_pdf_rewrites(file_bytes, rewrites), for any RewriteSet, lines *)
(* 157-167: open the input and classify it                              *)
PdfOpen ==
    /\ pc = "extracted"
    /\ ext = ".pdf"
    /\ rewrites' \in RewriteSets
    /\ doc' = file_bytes
    /\ inj_sections' = extract_pdf_sections(file_bytes)
    /\ coord_source' = file_bytes
    /\ pc' = "redact"
    /\ UNCHANGED <<ext, file_bytes, sections, optimized_bytes,
                   buf, doc2, page_i, ov_i, calls, enforceVars, fnVars, routerVars>>

(* The calls one loop makes for its pairs *)
PairCalls(name, pairs) == [k \in 1..Len(pairs) |-> <<name, pairs[k].entry.page>>]

(* inject_pdf_rewrites, lines 169-188: mark every targeted span for redaction *)
PdfAddRedacts ==
    /\ pc = "redact"
    /\ doc' = AddRedactAnnots(doc, PdfPairs(inj_sections, rewrites), 1)
    /\ calls' = calls \o PairCalls("add_redact_annot", PdfPairs(inj_sections, rewrites))
    /\ page_i' = 0
    /\ pc' = "apply"
    /\ UNCHANGED <<ext, file_bytes, rewrites, sections, optimized_bytes,
                   inj_sections, coord_source, buf, doc2, ov_i, enforceVars, fnVars, routerVars>>

(* Variant of ApplyLoopDone: the loop stops after the first page *)
ApplyLoopDone_first_page == page_i >= 1

(* The loop "for page in doc" of line 191 has visited every page *)
ApplyLoopDone == page_i >= Len(doc)

(* inject_pdf_rewrites, lines 191-192: commit the redactions of one page *)
PdfApplyPage ==
    /\ pc = "apply"
    /\ ~ApplyLoopDone
    /\ doc' = [doc EXCEPT ![page_i + 1] = ApplyRedactions(@)]
    /\ calls' = Append(calls, <<"apply_redactions", page_i>>)
    /\ page_i' = page_i + 1
    /\ UNCHANGED <<pc, ext, file_bytes, rewrites, sections, optimized_bytes,
                   inj_sections, coord_source, buf, doc2, ov_i, enforceVars, fnVars, routerVars>>

(* Variant of PdfSaveReopen: the positions are taken from a classification *)
(* of the saved, redacted document                                         *)
PdfSaveReopen_classifies_buf ==
    /\ pc = "apply"
    /\ ApplyLoopDone
    /\ buf' = doc
    /\ doc2' = doc
    /\ inj_sections' = extract_pdf_sections(doc)
    /\ coord_source' = doc
    /\ ov_i' = 0
    /\ pc' = "overlay"
    /\ UNCHANGED <<ext, file_bytes, rewrites, sections, optimized_bytes,
                   doc, page_i, calls, enforceVars, fnVars, routerVars>>

(* inject_pdf_rewrites, lines 197-209: save the redacted document, reopen it *)
(* as doc2, and classify the input again for the positions                   *)
PdfSaveReopen ==
    /\ pc = "apply"
    /\ ApplyLoopDone
    /\ buf' = doc
    /\ doc2' = doc
    /\ inj_sections' = extract_pdf_sections(file_bytes)
    /\ coord_source' = file_bytes
    /\ ov_i' = 0
    /\ pc' = "overlay"
    /\ UNCHANGED <<ext, file_bytes, rewrites, sections, optimized_bytes,
                   doc, page_i, calls, enforceVars, fnVars, routerVars>>

(* inject_pdf_rewrites, lines 211-243: draw the replacement of one pair *)
PdfInsertText ==
    /\ pc = "overlay"
    /\ ov_i < Len(PdfPairs(inj_sections, rewrites))
    /\ LET pair == PdfPairs(inj_sections, rewrites)[ov_i + 1]
       IN  /\ doc2' = InsertText(doc2, pair, DefaultTolerance)
           /\ calls' = Append(calls, <<"insert_text", pair.entry.page>>)
    /\ ov_i' = ov_i + 1
    /\ UNCHANGED <<pc, ext, file_bytes, rewrites, sections, optimized_bytes,
                   doc, inj_sections, coord_source, buf, page_i, enforceVars, fnVars, routerVars>>

(* inject_pdf_rewrites, lines 245-250: save doc2 and return its bytes *)
PdfFinish ==
    /\ pc = "overlay"
    /\ ov_i >= Len(PdfPairs(inj_sections, rewrites))
    /\ optimized_bytes' = doc2
    /\ pc' = "done"
    /\ UNCHANGED <<ext, file_bytes, rewrites, sections, pdfVars, enforceVars, fnVars, routerVars>>

NextEngine ==
    \/ ExtractDocx
    \/ InjectDocx
    \/ ExtractPdf
    \/ PdfOpen
    \/ PdfAddRedacts
    \/ PdfApplyPage
    \/ PdfSaveReopen
    \/ PdfInsertText
    \/ PdfFinish

Spec == InitEngine /\ [][NextEngine]_vars

----------------------------------------------------------------------------
(* The classification stated unit by unit, without the loop: the units of a *)
(* run-oriented document are its paragraphs, those of a geometry-oriented   *)
(* document the lines of its text blocks.                                   *)

(* extract_*_sections has just returned *)
Extracted == pc = "extracted"
Injected == pc = "done"

Labels == {"summary", "experience"}
Entries(secs, S) == IF S = "summary" THEN secs.summary ELSE secs.experience
NewTextsOf(rw, S) == IF S = "summary" THEN rw.summary ELSE rw.experience

(* The type of docx paragraph u: "summary", "experience", "stop", "untyped" *)
(* for a heading, "none" for a paragraph that is no heading                 *)
DocxUnitType(u) ==
    LET para == file_bytes[u]
        text == Strip(ParaText(para))
        styled == Contains(Lower(para.style), <<"h", "e", "a", "d", "i", "n", "g">>)
        allBold == \A r \in 1..Len(para.runs) :
                       Strip(para.runs[r].text) # <<>> => para.runs[r].bold = "True"
        keyword == IF Lower(text) \in DOCX_SUMMARY_KEYWORDS THEN "summary"
                   ELSE IF Lower(text) \in DOCX_EXPERIENCE_KEYWORDS THEN "experience"
                   ELSE IF Lower(text) \in DOCX_STOP_KEYWORDS THEN "stop"
                   ELSE "untyped"
    IN  IF text = <<>> THEN "none"
        ELSE IF styled \/ allBold \/ keyword # "untyped" THEN keyword
        ELSE "none"

DocxNonBlank(u) == Strip(ParaText(file_bytes[u])) # <<>>

(* The lines of the input, and the type of line u: its text, lower-cased,  *)
(* symbols blanked, is at most 50 long and has a word of a vocabulary      *)
InputLines == PdfLines(file_bytes, 0)

PdfUnitType(u) ==
    LET t == Strip(SubSymbols(Lower(LineText(InputLines[u]))))
        has(vocab) == \E w \in vocab : Contains(<<" ">> \o t \o <<" ">>,
                                                <<" ">> \o w \o <<" ">>)
    IN  IF t = <<>> \/ Len(t) > 50 THEN "none"
        ELSE IF has(summary_triggers) THEN "summary"
        ELSE IF has(experience_triggers) THEN "experience"
        ELSE IF has(stop_triggers) THEN "stop"
        ELSE "none"

PdfNonBlank(u) == LineText(InputLines[u]) # <<>>

UnitCount == IF ext = ".docx" THEN Len(file_bytes) ELSE Len(InputLines)
UnitType(u) == IF ext = ".docx" THEN DocxUnitType(u) ELSE PdfUnitType(u)
UnitNonBlank(u) == IF ext = ".docx" THEN DocxNonBlank(u) ELSE PdfNonBlank(u)
IsHeading(u) == UnitType(u) # "none"
IsTyped(u) == UnitType(u) \in {"summary", "experience", "stop"}

(* The section in force at unit u: that of the last typed heading before u *)
SectionAt(u) ==
    LET typed == {v \in 1..(u - 1) : IsTyped(v)}
    IN  IF typed = {} THEN "None"
        ELSE LET last == CHOOSE v \in typed : \A w \in typed : w <= v
             IN  IF UnitType(last) = "stop" THEN "None" ELSE UnitType(last)

(* Entry e of a span list was taken from unit u *)
EntryOfUnit(e, u) ==
    IF ext = ".docx" THEN e.para_idx = u - 1
    ELSE /\ e.page = InputLines[u].page
         /\ e.block_idx = InputLines[u].block_idx
         /\ \E k \in 1..Len(InputLines[u].spans) : InputLines[u].spans[k].bbox = e.rect

(* The unit an entry was taken from, and its place inside the unit *)
UnitOfEntry(e) == CHOOSE u \in 1..UnitCount : EntryOfUnit(e, u)
PlaceInUnit(e) ==
    IF ext = ".docx" THEN e.run_idx
    ELSE CHOOSE k \in 1..Len(InputLines[UnitOfEntry(e)].spans) :
            InputLines[UnitOfEntry(e)].spans[k].bbox = e.rect

(* C9: a heading unit is in no span list and sets the section by its type;  *)
(* a non-heading unit with text is in the span list of S exactly when the   *)
(* last typed heading before it is an S heading; spans are in reading order. *)
C9_SinglePassClassifier ==
    Extracted =>
        \A S \in Labels :
            LET es == Entries(sections, S)
            IN  /\ \A k \in 1..Len(es) :
                       /\ \E u \in 1..UnitCount : EntryOfUnit(es[k], u)
                       /\ ~IsHeading(UnitOfEntry(es[k]))
                /\ \A u \in 1..UnitCount :
                       (~IsHeading(u) /\ UnitNonBlank(u)) =>
                           ((\E k \in 1..Len(es) : EntryOfUnit(es[k], u))
                               <=> SectionAt(u) = S)
                /\ \A k \in 1..(Len(es) - 1) :
                       \/ UnitOfEntry(es[k]) < UnitOfEntry(es[k + 1])
                       \/ /\ UnitOfEntry(es[k]) = UnitOfEntry(es[k + 1])
                          /\ PlaceInUnit(es[k]) < PlaceInUnit(es[k + 1])

(* C9 witness: text before the first heading is left out, a span of a  *)
(* section was captured, and text after a stop heading is left out     *)
C9_Witness ==
    /\ Extracted
    /\ (sections.summary # <<>> \/ sections.experience # <<>>)
    /\ \E u \in 1..UnitCount : ~IsHeading(u) /\ UnitNonBlank(u) /\ SectionAt(u) = "None"
                                /\ \A v \in 1..(u - 1) : ~IsTyped(v)
    /\ \E u \in 1..UnitCount :
           /\ ~IsHeading(u) /\ UnitNonBlank(u) /\ SectionAt(u) = "None"
           /\ \E v \in 1..(u - 1) : UnitType(v) = "stop"

(* The texts of all non-heading units, one after the other *)
RECURSIVE NonHeadingText(_)
NonHeadingText(u) ==
    IF u > UnitCount THEN <<>>
    ELSE (IF IsHeading(u) THEN <<>>
          ELSE IF ext = ".docx" THEN ParaText(file_bytes[u])
          ELSE Concat(SpanTexts(InputLines[u])))
         \o NonHeadingText(u + 1)

WithoutNewlines(t) == SelectSeq(t, LAMBDA c : c # "\n")

(* C10 as stated: the full linear text is the texts of the non-heading units *)
(* one after the other, nothing lost and nothing added (the separators of    *)
(* the join apart).                                                          *)
C10_Original ==
    Extracted => WithoutNewlines(sections.all_text) = NonHeadingText(1)

(* The parts of the full text as the amended claim lists them *)
RECURSIVE ExpectedParts(_)
ExpectedParts(u) ==
    IF u > UnitCount THEN <<>>
    ELSE (IF ext = ".docx" THEN <<Strip(ParaText(file_bytes[u]))>>
          ELSE IF IsHeading(u) THEN <<>>
          ELSE IF SectionAt(u) \in Labels
               THEN SelectSeq(SpanTexts(InputLines[u]), LAMBDA t : Strip(t) # <<>>)
          ELSE SpanTexts(InputLines[u]))
         \o ExpectedParts(u + 1)

(* C10 amended: the full linear text is the newline-join, in reading order, *)
(* of the stripped text of every paragraph, headings and blank paragraphs   *)
(* included (run-oriented), or of the text of every span of every           *)
(* non-heading line, the whitespace-only spans of lines inside a Summary or *)
(* Experience region left out (geometry-oriented).                          *)
C10_FullTextParts ==
    Extracted => sections.all_text = Join(ExpectedParts(1), <<"\n">>)

(* C10 witness: a document with a heading, a captured unit and an uncaptured *)
(* unit with text                                                            *)
C10_Witness ==
    /\ Extracted
    /\ \E u \in 1..UnitCount : IsTyped(u)
    /\ \E u \in 1..UnitCount : ~IsHeading(u) /\ UnitNonBlank(u) /\ SectionAt(u) \in Labels
    /\ \E u \in 1..UnitCount : ~IsHeading(u) /\ UnitNonBlank(u) /\ SectionAt(u) = "None"
    /\ Len(sections.all_text) > 0

----------------------------------------------------------------------------
(* Injection *)

Min(a, b) == IF a <= b THEN a ELSE b

(* The number of spans of section S that injection targets *)
TargetCount(S) == Min(Len(Entries(sections, S)), Len(NewTextsOf(rewrites, S)))

(* The (paragraph, run) places, 1-based, of the targeted runs *)
TargetedRuns ==
    UNION {{<<Entries(sections, S)[k].para_idx + 1, Entries(sections, S)[k].run_idx + 1>> :
               k \in 1..TargetCount(S)} : S \in Labels}

(* C1: after inject_docx_rewrites the document has the same paragraphs and  *)
(* runs with the same style, bold flag and formatting; a run that is not    *)
(* targeted has the same text, so only the text of targeted runs can differ. *)
C1_OnlyTargetedTextChanges ==
    (Injected /\ ext = ".docx") =>
        /\ Len(optimized_bytes) = Len(file_bytes)
        /\ \A p \in 1..Len(file_bytes) :
               /\ optimized_bytes[p].style = file_bytes[p].style
               /\ Len(optimized_bytes[p].runs) = Len(file_bytes[p].runs)
               /\ \A r \in 1..Len(file_bytes[p].runs) :
                      /\ optimized_bytes[p].runs[r].bold = file_bytes[p].runs[r].bold
                      /\ optimized_bytes[p].runs[r].fmt = file_bytes[p].runs[r].fmt
                      /\ <<p, r>> \notin TargetedRuns =>
                             optimized_bytes[p].runs[r].text = file_bytes[p].runs[r].text

(* C1 witness: a targeted run of a paragraph got a new text next to a run of *)
(* the same paragraph that was no target                                     *)
C1_Witness ==
    /\ Injected /\ ext = ".docx"
    /\ \E p \in 1..Len(file_bytes) :
           \E r1, r2 \in 1..Len(file_bytes[p].runs) :
               /\ <<p, r1>> \in TargetedRuns
               /\ optimized_bytes[p].runs[r1].text # file_bytes[p].runs[r1].text
               /\ <<p, r2>> \notin TargetedRuns
               /\ Strip(file_bytes[p].runs[r2].text) # <<>>

(* The text a span is to receive: the enforcer's result for the pair *)
Enforced(entry, new_text) ==
    enforce_length_constraint(entry.text, new_text, DefaultTolerance)

(* What the run-oriented injector leaves at entry k of section S *)
DocxTextAt(entry) == optimized_bytes[entry.para_idx + 1].runs[entry.run_idx + 1].text

(* The spans left in the content stream of a page, and the texts drawn on it *)
PageSpans(page) ==
    UNION {UNION {{page.blocks[b].lines[l].spans[k] :
                      k \in 1..Len(page.blocks[b].lines[l].spans)} :
                  l \in 1..Len(page.blocks[b].lines)} :
           b \in 1..Len(page.blocks)}
DrawnAt(page, origin) ==
    {k \in 1..Len(page.drawn) : page.drawn[k].origin = origin}

(* C2: span i of a section gets the enforced replacement i while i is below *)
(* both lengths; a span without a replacement keeps its text; replacements  *)
(* beyond the spans are ignored; for both injectors.                        *)
C2_PositionalPairing ==
    Injected =>
        \A S \in Labels :
            LET es == Entries(sections, S)
                nt == NewTextsOf(rewrites, S)
            IN  IF ext = ".docx"
                THEN \A k \in 1..Len(es) :
                        IF k <= Len(nt)
                        THEN DocxTextAt(es[k]) = Enforced(es[k], nt[k])
                        ELSE DocxTextAt(es[k]) = es[k].text
                ELSE /\ \A k \in 1..Len(es) :
                         LET page == optimized_bytes[es[k].page + 1]
                             left == {sp \in PageSpans(page) : sp.bbox = es[k].rect}
                         IN  IF k <= Len(nt)
                             THEN /\ left = {}
                                  /\ \E d \in DrawnAt(page, es[k].origin) :
                                         page.drawn[d].text = Enforced(es[k], nt[k])
                                  /\ Cardinality(DrawnAt(page, es[k].origin)) = 1
                             ELSE /\ \E sp \in left : sp.text = es[k].text
                                  /\ DrawnAt(page, es[k].origin) = {}

(* The number of texts drawn on the whole output document *)
RECURSIVE DrawnCount(_, _)
DrawnCount(d, p) ==
    IF p > Len(d) THEN 0 ELSE Len(d[p].drawn) + DrawnCount(d, p + 1)

(* C2 witness: the geometry-oriented injector finished a document in which  *)
(* one section has more spans than replacements and the other section more  *)
(* replacements than spans                                                  *)
C2_Witness ==
    /\ Injected /\ ext = ".pdf"
    /\ \E S, T \in Labels :
           /\ Len(Entries(sections, S)) > Len(NewTextsOf(rewrites, S))
           /\ Len(NewTextsOf(rewrites, S)) >= 1
           /\ Len(NewTextsOf(rewrites, T)) > Len(Entries(sections, T))
           /\ Len(Entries(sections, T)) >= 1
    /\ DrawnCount(optimized_bytes, 1) = TargetCount("summary") + TargetCount("experience")

----------------------------------------------------------------------------
(* Order of the page-level calls of the geometry-oriented injector *)

CallsOn(name, page) == {k \in 1..Len(calls) : calls[k] = <<name, page>>}

(* The targeted spans that lie on a page *)
PairsOnPage(page) ==
    {k \in 1..Len(PdfPairs(sections, rewrites)) :
        PdfPairs(sections, rewrites)[k].entry.page = page}

(* C7: before a text is inserted on a page, apply_redactions has run on that *)
(* page, after the redaction of every targeted span of the page was added.   *)
C7_RedactionsCommittedBeforeInsert ==
    \A k \in 1..Len(calls) :
        calls[k][1] = "insert_text" =>
            \E a \in CallsOn("apply_redactions", calls[k][2]) :
                /\ a < k
                /\ \A r \in CallsOn("add_redact_annot", calls[k][2]) : r < a
                /\ Cardinality(CallsOn("add_redact_annot", calls[k][2]))
                       = Cardinality(PairsOnPage(calls[k][2]))

(* C7 witness: replacement text was inserted on the first and on the second *)
(* page of a document                                                       *)
C7_Witness ==
    /\ Injected /\ ext = ".pdf"
    /\ CallsOn("insert_text", 0) # {}
    /\ CallsOn("insert_text", 1) # {}

(* C8: the positions used by the overlay loop come from a classification of *)
(* the redacted document as saved (buf), not of an earlier snapshot.        *)
C8_OverlayClassifiesRedactedBuffer ==
    pc = "overlay" => coord_source = buf

----------------------------------------------------------------------------
(* pdf_engine_v2.find_resume_sections: the header test of one line *)

SUMMARY_HEADS ==
    { <<"s", "u", "m", "m", "a", "r", "y">>, <<"p", "r", "o", "f", "i", "l", "e">>, <<"o", "b", "j", "e", "c", "t", "i", "v", "e">>, <<"a", "b", "o", "u", "t">>, <<"o", "v", "e", "r", "v", "i", "e", "w">>, <<"s", "t", "a", "t", "e", "m", "e", "n", "t">>, <<"b", "a", "c", "k", "g", "r", "o", "u", "n", "d">>, <<"p", "r", "o", "f", "e", "s", "s", "i", "o", "n", "a", "l", " ", "s", "u", "m", "m", "a", "r", "y">>, <<"p", "r", "o", "f", "e", "s", "s", "i", "o", "n", "a", "l", " ", "p", "r", "o", "f", "i", "l", "e">>, <<"c", "a", "r", "e", "e", "r", " ", "o", "b", "j", "e", "c", "t", "i", "v", "e">> }
EXP_HEADS ==
    { <<"e", "x", "p", "e", "r", "i", "e", "n", "c", "e">>, <<"h", "i", "s", "t", "o", "r", "y">>, <<"e", "m", "p", "l", "o", "y", "m", "e", "n", "t">>, <<"w", "o", "r", "k">>, <<"c", "a", "r", "e", "e", "r">>, <<"p", "r", "o", "f", "e", "s", "s", "i", "o", "n", "a", "l", " ", "e", "x", "p", "e", "r", "i", "e", "n", "c", "e">>, <<"w", "o", "r", "k", " ", "e", "x", "p", "e", "r", "i", "e", "n", "c", "e">>, <<"p", "r", "o", "f", "e", "s", "s", "i", "o", "n", "a", "l", " ", "h", "i", "s", "t", "o", "r", "y">>, <<"e", "m", "p", "l", "o", "y", "m", "e", "n", "t", " ", "h", "i", "s", "t", "o", "r", "y">> }
STOP_HEADS ==
    { <<"e", "d", "u", "c", "a", "t", "i", "o", "n">>, <<"s", "k", "i", "l", "l", "s">>, <<"c", "e", "r", "t", "i", "f", "i", "c", "a", "t", "i", "o", "n", "s">>, <<"c", "e", "r", "t", "s">>, <<"p", "r", "o", "j", "e", "c", "t", "s">>, <<"a", "w", "a", "r", "d", "s">>, <<"r", "e", "f", "e", "r", "e", "n", "c", "e", "s">>, <<"l", "a", "n", "g", "u", "a", "g", "e", "s">>, <<"l", "i", "n", "k", "s">>, <<"i", "n", "t", "e", "r", "e", "s", "t", "s">>, <<"v", "o", "l", "u", "n", "t", "e", "e", "r", "i", "n", "g">>, <<"p", "u", "b", "l", "i", "c", "a", "t", "i", "o", "n", "s">>, <<"a", "f", "f", "i", "l", "i", "a", "t", "i", "o", "n", "s">>, <<"a", "c", "a", "d", "e", "m", "i", "c">>, <<"t", "r", "a", "i", "n", "i", "n", "g">>, <<"h", "o", "b", "b", "i", "e", "s">> }

(* The length of the normalized text above which a line is no header *)
V2HeaderMaxLen == 40

(* re.sub(r'[^a-z]', ' ', t) *)
SubNonLetters(t) ==
    [i \in 1..Len(t) |->
        IF \E k \in 1..26 : LowerLetters[k] = t[i] THEN t[i] ELSE " "]

(* norm_text.replace(" ", "") *)
Condensed(t) == SelectSeq(t, LAMBDA c : c # " ")

(* The category of the header find_resume_sections sees in a line, "None" *)
(* when the line is no header                                             *)
find_resume_sections_header(full_line_text) ==
    LET norm_text == Strip(SubNonLetters(Lower(full_line_text)))
        words_set == Words(norm_text)
        condensed == Condensed(norm_text)
        found(heads) == (words_set \cap heads # {}) \/ (condensed \in heads)
    IN  IF Len(norm_text) >= 1 /\ Len(norm_text) <= V2HeaderMaxLen
        THEN IF found(SUMMARY_HEADS) THEN "summary"
             ELSE IF found(EXP_HEADS) THEN "experience"
             ELSE IF found(STOP_HEADS) THEN "stop"
             ELSE "None"
        ELSE "None"

(* find_resume_sections, on the lines of the text blocks in the order the  *)
(* three nested loops visit them.  block_lines is committed when a header  *)
(* is met (lines 48-64) and at the end of its block (lines 72-77); a line  *)
(* without spans or without text is passed over (lines 32-36).             *)
find_resume_sections(bytes) ==
    LET lines == PdfLines(bytes, 0)
        commit(list, block_lines) ==
            IF Strip(Join(block_lines, <<" ">>)) # <<>>
            THEN Append(list, [text |-> Strip(Join(block_lines, <<" ">>))])
            ELSE list
        RECURSIVE Loop(_, _, _, _, _, _)
        Loop(n, current_section, block_lines, summary, experience, all_text_parts) ==
            IF n >= Len(lines)
            THEN [summary |-> summary, experience |-> experience,
                  all_text |-> Join(all_text_parts, <<"\n">>)]
            ELSE LET line == lines[n + 1]
                     full_line_text == LineText(line)
                     header == find_resume_sections_header(full_line_text)
                     last_of_block ==
                         \/ n + 1 = Len(lines)
                         \/ lines[n + 2].page # line.page
                         \/ lines[n + 2].block_idx # line.block_idx
                     passed_over == Len(line.spans) = 0 \/ full_line_text = <<>>
                     is_header == ~passed_over /\ header # "None"
                     kept == IF is_header THEN <<>>
                             ELSE IF passed_over THEN block_lines
                             ELSE Append(block_lines, full_line_text)
                     sum1 == IF is_header /\ current_section = "summary"
                             THEN commit(summary, block_lines) ELSE summary
                     exp1 == IF is_header /\ current_section = "experience"
                             THEN commit(experience, block_lines) ELSE experience
                     section1 == IF ~is_header THEN current_section
                                 ELSE IF header = "stop" THEN "None" ELSE header
                     sum2 == IF last_of_block /\ section1 = "summary"
                             THEN commit(sum1, kept) ELSE sum1
                     exp2 == IF last_of_block /\ section1 = "experience"
                             THEN commit(exp1, kept) ELSE exp1
                     parts == IF last_of_block /\ Strip(Join(kept, <<" ">>)) # <<>>
                              THEN Append(all_text_parts, Strip(Join(kept, <<" ">>)))
                              ELSE all_text_parts
                 IN  Loop(n + 1, section1, IF last_of_block THEN <<>> ELSE kept,
                          sum2, exp2, parts)
    IN  Loop(0, "None", <<>>, <<>>, <<>>, <<>>)

----------------------------------------------------------------------------
(* Classification alone, on documents made for the heading tests and for    *)
(* the scenario of the two headed paragraphs                                *)

MaxUnits == 4

ParaSummaryHead ==
    Para(StyleNormal, <<Run(<<"S", "u", "m", "m", "a", "r", "y">>, "True", "Calibri 14")>>)
ParaBuiltApps ==
    Para(StyleNormal, <<Run(<<"B", "u", "i", "l", "t", " ", "a", "p", "p", "s", ".">>, "False", "Calibri 11")>>)
ParaExperienceHead ==
    Para(StyleNormal, <<Run(<<"E", "x", "p", "e", "r", "i", "e", "n", "c", "e">>, "True", "Calibri 14")>>)
ParaLedTeam ==
    Para(StyleNormal, <<Run(<<"L", "e", "d", " ", "t", "e", "a", "m", " ", "o", "f", " ", "5", ".">>, "None", "Calibri 11")>>)
(* 60 characters, every run bold *)
ParaLongBold ==
    Para(StyleNormal, <<Run(<<"D", "e", "l", "i", "v", "e", "r", "e", "d", " ", "c", "l", "o", "u", "d", " ", "m", "i", "g", "r", "a", "t", "i", "o", "n", " ", "f", "o", "r", " ">>, "True", "Calibri 11"),
                        Run(<<"t", "h", "r", "e", "e", " ", "e", "n", "t", "e", "r", "p", "r", "i", "s", "e", " ", "c", "l", "i", "e", "n", "t", "s", " ", "2", "0", "2", "1", ".">>, "True", "Calibri 11 italic")>>)
(* short, every run bold, no keyword *)
ParaShortBold ==
    Para(StyleNormal, <<Run(<<"K", "e", "y", " ", "w", "i", "n", "s", ":">>, "True", "Calibri 11")>>)
(* one bold run and one run that is not bold *)
ParaMixedBold ==
    Para(StyleNormal, <<Run(<<"L", "e", "a", "d", ":", " ">>, "True", "Calibri 11"),
                        Run(<<"r", "a", "n", " ", "o", "p", "s", ".">>, "None", "Calibri 11")>>)

(* The last one has a heading style, is not bold, and is no keyword *)
HeadingTestParagraphs ==
    { ParaSummaryHead, ParaBuiltApps, ParaExperienceHead, ParaLedTeam,
      ParaLongBold, ParaShortBold, ParaMixedBold,
      Para(StyleHeading2, <<Run(<<"H", "i", "g", "h", "l", "i", "g", "h", "t", "s">>,
                                "None", "Calibri 12")>>) }

HeadingTestDocuments == SeqsUpTo(HeadingTestParagraphs, MaxUnits)

ClassifyDocuments(e) == IF e = ".docx" THEN HeadingTestDocuments ELSE PdfDocuments

InitClassify ==
    /\ pc = "start"
    /\ ext \in {".docx", ".pdf"}
    /\ file_bytes \in ClassifyDocuments(ext)
    /\ rewrites = <<>>
    /\ sections = <<>>
    /\ optimized_bytes = <<>>
    /\ doc = <<>>
    /\ inj_sections = <<>>
    /\ coord_source = <<>>
    /\ buf = <<>>
    /\ doc2 = <<>>
    /\ page_i = 0
    /\ ov_i = 0
    /\ calls = <<>>
    /\ EnforceIdle
    /\ FnIdle
    /\ RouterIdle

(* find_resume_sections(doc), on the same document *)
FindSectionsCall ==
    /\ ext = ".pdf"
    /\ fn_pc = "idle"
    /\ fn_name' = "find_resume_sections"
    /\ fn_ret' = find_resume_sections(file_bytes)
    /\ fn_pc' = "returned"
    /\ UNCHANGED <<fn_arg, engineVars, enforceVars, routerVars>>

NextClassify ==
    \/ ExtractDocx
    \/ ExtractPdf
    \/ FindSectionsCall

SpecClassify == InitClassify /\ [][NextClassify]_vars

(* The document of the scenario: a bold heading "Summary", a paragraph, a  *)
(* bold heading "Experience", a paragraph                                  *)
ScenarioA == <<ParaSummaryHead, ParaBuiltApps, ParaExperienceHead, ParaLedTeam>>

(* C11: for the document "Summary" (bold), "Built apps.", "Experience"     *)
(* (bold), "Led team of 5." the classifier returns exactly one Summary     *)
(* span, "Built apps.", exactly one Experience span, "Led team of 5.", and *)
(* no span of a heading paragraph.                                         *)
C11_ScenarioA ==
    (Extracted /\ ext = ".docx" /\ file_bytes = ScenarioA) =>
        /\ Len(sections.summary) = 1
        /\ sections.summary[1].text = <<"B", "u", "i", "l", "t", " ", "a", "p", "p", "s", ".">>
        /\ sections.summary[1].para_idx = 1
        /\ Len(sections.experience) = 1
        /\ sections.experience[1].text = <<"L", "e", "d", " ", "t", "e", "a", "m", " ", "o", "f", " ", "5", ".">>
        /\ sections.experience[1].para_idx = 3
        /\ \A S \in Labels : \A k \in 1..Len(Entries(sections, S)) :
               /\ Entries(sections, S)[k].text # <<"S", "u", "m", "m", "a", "r", "y">>
               /\ Entries(sections, S)[k].text # <<"E", "x", "p", "e", "r", "i", "e", "n", "c", "e">>

C11_Witness ==
    /\ Extracted
    /\ ext = ".docx"
    /\ file_bytes = ScenarioA
    /\ Len(sections.summary) = 1
    /\ Len(sections.experience) = 1

(* No unit of the input is a summary, experience or stop heading *)
NoRecognizedHeading == \A u \in 1..UnitCount : ~IsTyped(u)

(* The text of the input, unit by unit: the text of every paragraph, or of *)
(* every span of every line of a text block                                *)
DocumentText ==
    IF ext = ".docx"
    THEN Join([u \in 1..Len(file_bytes) |-> Strip(ParaText(file_bytes[u]))], <<"\n">>)
    ELSE Join(Concat([u \in 1..Len(InputLines) |->
                         [k \in 1..Len(InputLines[u].spans) |->
                             InputLines[u].spans[k].text]]), <<"\n">>)

(* C12: for a document without a summary, experience or stop heading, the  *)
(* empty document included, classification returns empty Summary and       *)
(* Experience lists and a full text that holds the text of every unit      *)
(* (the empty string for a document without units).                        *)
C12_NoHeadingDocument ==
    (Extracted /\ NoRecognizedHeading) =>
        /\ sections.summary = <<>>
        /\ sections.experience = <<>>
        /\ sections.all_text = DocumentText
        /\ (UnitCount = 0 => sections.all_text = <<>>)

C12_Witness ==
    /\ Extracted
    /\ NoRecognizedHeading
    /\ UnitCount > 1
    /\ sections.summary = <<>>
    /\ sections.experience = <<>>
    /\ Len(sections.all_text) > 0

(* Paragraph u has no heading style, has text, and all its text-bearing *)
(* runs are bold                                                        *)
AllBoldUnstyled(u) ==
    LET para == file_bytes[u]
    IN  /\ ~Contains(Lower(para.style), <<"h", "e", "a", "d", "i", "n", "g">>)
        /\ Strip(ParaText(para)) # <<>>
        /\ \A r \in 1..Len(para.runs) :
               Strip(para.runs[r].text) # <<>> => para.runs[r].bold = "True"

(* Paragraph u is in the span list of the section in force at u *)
CapturedAsContent(u) ==
    /\ SectionAt(u) \in Labels
    /\ \E k \in 1..Len(Entries(sections, SectionAt(u))) :
           Entries(sections, SectionAt(u))[k].para_idx = u - 1

(* C20: boldness makes a paragraph without a heading style a heading only  *)
(* when its text is shorter than the threshold of 60 characters: an        *)
(* all-bold paragraph of 60 characters or more, or a paragraph with text   *)
(* but no text-bearing run, inside a Summary or Experience region is       *)
(* captured as content.                                                    *)
C20_BoldHeadingIsShort ==
    (Extracted /\ ext = ".docx") =>
        \A u \in 1..Len(file_bytes) :
            (/\ AllBoldUnstyled(u)
             /\ (Len(Strip(ParaText(file_bytes[u]))) >= DocxHeadingMaxLen
                 \/ TextRuns(file_bytes[u]) = {})
             /\ SectionAt(u) \in Labels)
            => CapturedAsContent(u)

----------------------------------------------------------------------------
(* Harness of the lookups: one call of _match_section, of the header test  *)
(* of find_resume_sections, or of _map_font, on an argument built from     *)
(* parts.                                                                  *)

MaxWords == 3

UpperChar(c) ==
    IF \E i \in 1..26 : LowerLetters[i] = c
    THEN UpperLetters[CHOOSE i \in 1..26 : LowerLetters[i] = c]
    ELSE c

(* s.upper() *)
Upper(s) == [i \in 1..Len(s) |-> UpperChar(s[i])]

(* The words lines are made of, by the vocabulary they belong to *)
SummaryWords == { <<"S", "u", "m", "m", "a", "r", "y">>, <<"P", "r", "o", "f", "i", "l", "e">> }
ExperienceWords == { <<"W", "o", "r", "k">>, <<"H", "i", "s", "t", "o", "r", "y">> }
StopWords == { <<"S", "k", "i", "l", "l", "s">> }
OtherWords == { <<"J", "a", "n", "e">>, <<"I", "n", "t", "e", "r", "n", "a", "t", "i", "o", "n", "a", "l", "i", "z", "a", "t", "i", "o", "n">> }
LineWords == SummaryWords \cup ExperienceWords \cup StopWords \cup OtherWords

LineSeparators == { <<" ">>, <<" ", "&", " ">>, <<"-">> }

(* A line: one to MaxWords words, a separator, and whether it is in capitals *)
LineParts ==
    [words : SeqsUpTo(LineWords, MaxWords) \ {<<>>}, sep : LineSeparators,
     upper : BOOLEAN]

(* The text of a line *)
LineOf(parts) ==
    IF parts.upper THEN Upper(Join(parts.words, parts.sep))
    ELSE Join(parts.words, parts.sep)

(* The parts of font names *)
FontFamilies ==
    { <<"A", "r", "i", "a", "l">>, <<"C", "a", "l", "i", "b", "r", "i">>, <<"T", "i", "m", "e", "s", "N", "e", "w", "R", "o", "m", "a", "n">>, <<"G", "e", "o", "r", "g", "i", "a">>, <<"G", "A", "R", "A", "M", "O", "N", "D">>,
      <<"N", "o", "t", "o", "S", "e", "r", "i", "f">>, <<"B", "l", "a", "c", "k", "a", "d", "d", "e", "r">> }
FontWeights == { <<>>, <<"-", "B", "o", "l", "d">>, <<",", "H", "e", "a", "v", "y">>, <<"-", "B", "l", "a", "c", "k">>, <<"B", "O", "L", "D">>, <<"S", "e", "m", "i", "b", "o", "l", "d">>, <<"-", "M", "e", "d", "i", "u", "m">> }
FontSlants == { <<>>, <<"I", "t", "a", "l", "i", "c">>, <<"-", "O", "b", "l", "i", "q", "u", "e">>, <<"M", "T">> }

FontParts == [family : FontFamilies, weight : FontWeights, slant : FontSlants]

(* The font name made of the parts *)
FontNameOf(parts) == parts.family \o parts.weight \o parts.slant

LookupNames == {"_match_section", "find_resume_sections", "_map_font"}

InitLookup ==
    /\ fn_pc = "input"
    /\ fn_name \in LookupNames
    /\ fn_arg \in (IF fn_name = "_map_font" THEN FontParts ELSE LineParts)
    /\ fn_ret = "none"
    /\ EnforceIdle
    /\ EngineIdle
    /\ RouterIdle

(* _match_section(line_text) *)
MatchSectionCall ==
    /\ fn_pc = "input"
    /\ fn_name = "_match_section"
    /\ fn_ret' = _match_section(LineOf(fn_arg))
    /\ fn_pc' = "returned"
    /\ UNCHANGED <<fn_name, fn_arg, enforceVars, engineVars, routerVars>>

(* find_resume_sections: the header test of one line *)
HeaderTestCall ==
    /\ fn_pc = "input"
    /\ fn_name = "find_resume_sections"
    /\ fn_ret' = find_resume_sections_header(LineOf(fn_arg))
    /\ fn_pc' = "returned"
    /\ UNCHANGED <<fn_name, fn_arg, enforceVars, engineVars, routerVars>>

(* _map_font(fontname) *)
MapFontCall ==
    /\ fn_pc = "input"
    /\ fn_name = "_map_font"
    /\ fn_ret' = _map_font(FontNameOf(fn_arg))
    /\ fn_pc' = "returned"
    /\ UNCHANGED <<fn_name, fn_arg, enforceVars, engineVars, routerVars>>

NextLookup ==
    \/ MatchSectionCall
    \/ HeaderTestCall
    \/ MapFontCall

SpecLookup == InitLookup /\ [][NextLookup]_vars

(* A lookup has returned *)
LookupReturned(name) == fn_pc = "returned" /\ fn_name = name

(* The line is short for the classifier that was called *)
ShortLine ==
    Len(LineOf(fn_arg)) <=
        (IF fn_name = "_match_section" THEN PdfHeadingMaxLen ELSE V2HeaderMaxLen)

HasWord(ws) == \E i \in 1..Len(fn_arg.words) : fn_arg.words[i] \in ws

(* C13: the categories are tried in the order summary, experience, stop: a *)
(* short line with a summary word and an experience word is a summary      *)
(* heading, and a short line with an experience word and a stop word but   *)
(* no summary word is an experience heading; a short line with stop words  *)
(* only is a stop heading.                                                 *)
C13_SummaryThenExperienceThenStop ==
    ((LookupReturned("_match_section") \/ LookupReturned("find_resume_sections"))
     /\ ShortLine) =>
        /\ HasWord(SummaryWords) => fn_ret = "summary"
        /\ (HasWord(ExperienceWords) /\ ~HasWord(SummaryWords)) => fn_ret = "experience"
        /\ (HasWord(StopWords) /\ ~HasWord(SummaryWords \cup ExperienceWords))
               => fn_ret = "stop"
        /\ ~HasWord(SummaryWords \cup ExperienceWords \cup StopWords) => fn_ret = "None"

C13_Witness ==
    /\ LookupReturned("_match_section")
    /\ ShortLine
    /\ HasWord(SummaryWords)
    /\ HasWord(ExperienceWords)
    /\ fn_arg.words[1] \in ExperienceWords
    /\ fn_ret = "summary"

(* The second case of C13 is reached: experience and stop, no summary *)
C13_WitnessExperienceOverStop ==
    /\ LookupReturned("find_resume_sections")
    /\ ShortLine
    /\ HasWord(ExperienceWords)
    /\ HasWord(StopWords)
    /\ ~HasWord(SummaryWords)
    /\ fn_arg.words[1] \in StopWords
    /\ fn_ret = "experience"

(* The output faces: Helvetica, Times-Roman, Times-BoldItalic, Times-Italic *)
StandardFaces == {"helv", "tiro", "tibo", "tiit"}

(* The keywords a font name was built with *)
WeightKeyword ==
    \/ fn_arg.weight \in { <<"-", "B", "o", "l", "d">>, <<",", "H", "e", "a", "v", "y">>, <<"-", "B", "l", "a", "c", "k">>, <<"B", "O", "L", "D">>, <<"S", "e", "m", "i", "b", "o", "l", "d">> }
    \/ fn_arg.family = <<"B", "l", "a", "c", "k", "a", "d", "d", "e", "r">>
SlantKeyword == fn_arg.slant \in { <<"I", "t", "a", "l", "i", "c">>, <<"-", "O", "b", "l", "i", "q", "u", "e">> }
SerifKeyword ==
    fn_arg.family \in { <<"T", "i", "m", "e", "s", "N", "e", "w", "R", "o", "m", "a", "n">>, <<"G", "e", "o", "r", "g", "i", "a">>, <<"G", "A", "R", "A", "M", "O", "N", "D">>, <<"N", "o", "t", "o", "S", "e", "r", "i", "f">> }

----------------------------------------------------------------------------
(* The enforcer on the scenario of a line of 40 characters and a candidate *)
(* of 60 characters, at the default tolerance.  The candidate is made of   *)
(* letters except around the cut, where every character is free.           *)

MaxSpread == 3

ScenarioOriginal == [i \in 1..40 |-> "x"]

(* The places (1-based) of the candidate whose character is free are those *)
(* around place 41, the first whose 0-based index 40 lies inside the band  *)
ScenarioCandidates ==
    LET FreePlaces == (41 - MaxSpread)..(41 + MaxSpread)
    IN  {[i \in 1..60 |-> IF i \in FreePlaces THEN f[i] ELSE "a"] :
            f \in [FreePlaces -> CandChars]}

InitEnforceScenario ==
    /\ e_pc = "input"
    /\ original = ScenarioOriginal
    /\ rewritten \in ScenarioCandidates
    /\ tolerance = DefaultTolerance
    /\ e_result = <<>>
    /\ EngineIdle
    /\ FnIdle
    /\ RouterIdle

SpecEnforceScenario == InitEnforceScenario /\ [][NextEnforce]_vars

(* The result is the candidate cut after n characters *)
CutAfter(n) == e_result = SubSeq(rewritten, 1, n)

(* The 0-based indices inside the band where the candidate has a space *)
SpacesInBand == {i \in 39..41 : rewritten[i + 1] = " "}

----------------------------------------------------------------------------
(* services/llm.py: rewrite_sections.  A value of the parsed JSON is kept  *)
(* with its type: an element of a list is a string or not, a value under a *)
(* key is a list or not.                                                   *)

(* What the call of the language model gives: an exception of the client, *)
(* text without an object, text with braces that is no JSON, JSON that is *)
(* no object, or an object.  An element of a list is a string or null; a  *)
(* value under a key is absent, something that is no list, or a list.     *)
LlmResponses ==
    LET Item(text) == [is_str |-> TRUE, text |-> text]
        NullItem == [is_str |-> FALSE, text |-> <<>>]
        Missing == [present |-> FALSE, is_list |-> FALSE, items |-> <<>>]
        NotAList == [present |-> TRUE, is_list |-> FALSE, items |-> <<>>]
        ListOf(items) == [present |-> TRUE, is_list |-> TRUE, items |-> items]
        Strings(texts) == [k \in 1..Len(texts) |-> Item(texts[k])]
    IN  {[kind |-> k, summary |-> Missing, experience |-> Missing] :
            k \in {"api_error", "no_json", "bad_json", "not_object"}}
        \cup {[kind |-> "object", summary |-> s, experience |-> e] :
                s \in {Missing, NotAList, ListOf(<<NullItem>>)}
                      \cup {ListOf(Strings(NewTexts(2, k))) : k \in 0..MaxRewrites},
                e \in {Missing, ListOf(<<>>)}}

(* Lines 127-131: a missing or non-list value becomes the originals, a    *)
(* shorter list is padded with the originals, a longer list is left alone *)
EnsureLength(value, originals) ==
    IF ~value.present \/ ~value.is_list THEN originals
    ELSE IF Len(value.items) >= Len(originals) THEN value.items
    ELSE value.items \o SubSeq(originals, Len(value.items) + 1, Len(originals))

(* get_client: raises ValueError without the key *)
get_client_raises(api_key) == ~api_key

(* rewrite_sections: whether it raises, and the dict it returns otherwise *)
rewrite_sections(resume_sections, api_key, response) ==
    LET texts(entries) ==
            [k \in 1..Len(entries) |-> [is_str |-> TRUE, text |-> entries[k].text]]
        summary_texts == texts(resume_sections.summary)
        experience_texts == texts(resume_sections.experience)
        empty == [summary |-> <<>>, experience |-> <<>>]
    IN  IF get_client_raises(api_key)
        THEN [raised |-> TRUE, result |-> empty]
        ELSE IF summary_texts = <<>> /\ experience_texts = <<>>
        THEN [raised |-> FALSE, result |-> empty]
        ELSE IF response.kind \in {"api_error", "bad_json", "not_object"}
        THEN [raised |-> TRUE, result |-> empty]
        ELSE IF response.kind = "no_json"
        THEN [raised |-> FALSE,
              result |-> [summary |-> summary_texts, experience |-> experience_texts]]
        ELSE [raised |-> FALSE,
              result |-> [summary |-> EnsureLength(response.summary, summary_texts),
                          experience |-> EnsureLength(response.experience,
                                                      experience_texts)]]

----------------------------------------------------------------------------
(* routers/optimize.py: the handlers optimize_resume and download_resume,  *)
(* with SESSION_STORE, for concurrent requests.  A request record holds    *)
(* the locals of one call of optimize_resume; they are dropped when the    *)
(* call has answered.                                                      *)

MaxRequests == 2

Requests == 1..MaxRequests

(* The values uuid.uuid4() can give, and an id no request was ever given *)
SessionIds == 1..MaxRequests
UnknownSessionId == 0

(* The uploads: a file name extension and the bytes; valid is whether the *)
(* bytes are a document of that format                                    *)
Uploads ==
    LET Upload(e, bytes, valid) ==
            [ext |-> e, file_bytes |-> bytes, valid |-> valid]
    IN  { Upload(".docx", <<ParaSummaryHead, ParaBuiltApps>>, TRUE),
          Upload(".docx", <<ParaBuiltApps>>, TRUE),
          Upload(".pdf", <<Page(<<BlockSummaryHead, BlockBody>>)>>, TRUE),
          Upload(".pdf", <<Page(<<BlockName>>)>>, TRUE),
          Upload(".pdf", <<>>, FALSE),
          Upload(".txt", <<>>, FALSE) }

NewRequest ==
    [pc |-> "new", ext |-> "", file_bytes |-> <<>>, valid |-> FALSE,
     sections |-> <<>>, rewrites |-> <<>>, optimized_bytes |-> <<>>,
     status |-> 0, session_id |-> UnknownSessionId]

(* The call has answered: raise HTTPException(status, detail), or the *)
(* JSONResponse with the session id                                   *)
Answered(status, session_id) ==
    [NewRequest EXCEPT !.pc = "done", !.status = status, !.session_id = session_id]

(* The handlers are coroutines of one event loop: between the await of    *)
(* line 57 and its answer a call of optimize_resume does not give way, so *)
(* no other handler runs while a call is inside lines 59-148              *)
LoopIdle ==
    \A q \in Requests : requests[q].pc \notin {"extracted", "rewritten", "injected"}

InitRouter ==
    /\ GROQ_API_KEY \in BOOLEAN
    /\ docx_bytes_ok \in BOOLEAN
    /\ SESSION_STORE = <<>>
    /\ requests = [r \in Requests |-> NewRequest]
    /\ download = [session_id |-> UnknownSessionId, status |-> 0, bytes |-> <<>>,
                   media_type |-> ""]
    /\ EnforceIdle
    /\ EngineIdle
    /\ FnIdle

(* Lines 51-57: the file type is validated and the upload is read *)
Receive(r) ==
    /\ requests[r].pc = "new"
    /\ LoopIdle
    /\ \E up \in Uploads :
          requests' = [requests EXCEPT ![r] =
              IF up.ext \notin {".docx", ".pdf"}
              THEN Answered(400, UnknownSessionId)
              ELSE [NewRequest EXCEPT !.pc = "read", !.ext = up.ext,
                                      !.file_bytes = up.file_bytes,
                                      !.valid = up.valid]]
    /\ UNCHANGED <<GROQ_API_KEY, docx_bytes_ok, SESSION_STORE, download,
                   enforceVars, engineVars, fnVars>>

(* Document(file_path_or_bytes) and fitz.open(stream=...) raise *)
OpenRaises(e, valid) == ~valid \/ (e = ".docx" /\ ~docx_bytes_ok)

(* Lines 59-88: the job description is obtained and the resume classified *)
Extract(r) ==
    /\ requests[r].pc = "read"
    /\ LoopIdle
    /\ \E jd \in {"given", "none", "no content"} :
          LET req == requests[r]
          IN  requests' = [requests EXCEPT ![r] =
                  IF jd = "none"
                  THEN Answered(400, UnknownSessionId)
                  ELSE IF jd = "no content"
                  THEN Answered(422, UnknownSessionId)
                  ELSE IF OpenRaises(req.ext, req.valid)
                  THEN Answered(500, UnknownSessionId)
                  ELSE [req EXCEPT !.pc = "extracted",
                                   !.sections =
                                       IF req.ext = ".docx"
                                       THEN extract_docx_sections(req.file_bytes)
                                       ELSE extract_pdf_sections(req.file_bytes)]]
    /\ UNCHANGED <<GROQ_API_KEY, docx_bytes_ok, SESSION_STORE, download,
                   enforceVars, engineVars, fnVars>>

(* Lines 90-94: rewrite_sections(sections, combined_jd), for any response *)
(* of the language model                                                  *)
Rewrite(r) ==
    /\ requests[r].pc = "extracted"
    /\ \E response \in LlmResponses :
          LET out == rewrite_sections(requests[r].sections, GROQ_API_KEY, response)
          IN  requests' = [requests EXCEPT ![r] =
                  IF out.raised
                  THEN Answered(500, UnknownSessionId)
                  ELSE [requests[r] EXCEPT !.pc = "rewritten",
                                           !.rewrites = out.result]]
    /\ UNCHANGED <<GROQ_API_KEY, docx_bytes_ok, SESSION_STORE, download,
                   enforceVars, engineVars, fnVars>>

(* The texts of the elements of a list *)
RewriteTexts(rw) ==
    [S \in Labels |-> [k \in 1..Len(rw[S]) |-> rw[S][k].text]]

(* enforce_length_constraint raises TypeError at len(rewritten) when an *)
(* element that is paired with a span is no string                     *)
EnforceRaises(secs, rw) ==
    \E S \in Labels : \E k \in 1..Len(Entries(secs, S)) :
        k <= Len(NewTextsOf(rw, S)) /\ ~NewTextsOf(rw, S)[k].is_str

(* inject_*_rewrites(file_bytes, rewrites) or get_full_*_text raise *)
InjectRaises(req) ==
    \/ OpenRaises(req.ext, req.valid)
    \/ EnforceRaises(req.sections, req.rewrites)

(* Lines 96-105: the rewrites are injected and the text read back *)
Inject(r) ==
    /\ requests[r].pc = "rewritten"
    /\ LET req == requests[r]
       IN  requests' = [requests EXCEPT ![r] =
               IF InjectRaises(req)
               THEN Answered(500, UnknownSessionId)
               ELSE [req EXCEPT !.pc = "injected",
                                !.optimized_bytes =
                                    IF req.ext = ".docx"
                                    THEN inject_docx_rewrites(req.file_bytes,
                                             RewriteTexts(req.rewrites),
                                             DefaultTolerance)
                                    ELSE inject_pdf_rewrites(req.file_bytes,
                                             RewriteTexts(req.rewrites),
                                             DefaultTolerance)]]
    /\ UNCHANGED <<GROQ_API_KEY, docx_bytes_ok, SESSION_STORE, download,
                   enforceVars, engineVars, fnVars>>

(* Variant of StoreReady: the session is stored as soon as the resume is *)
(* classified                                                            *)
StoreReady_early(req) == req.pc \in {"extracted", "rewritten", "injected"}

(* The statements of lines 126-137 are reached: the three stages are done *)
StoreReady(req) == req.pc = "injected"

(* Variant of FreshSessionIds: the id may be one that is in use *)
FreshSessionIds_any(store) == SessionIds

(* str(uuid.uuid4()): an id that was not given before *)
FreshSessionIds(store) == SessionIds \ DOMAIN store

(* The entry of lines 128-137 *)
SessionEntry(req) ==
    [bytes |-> req.optimized_bytes,
     content_type |-> IF req.ext = ".docx"
                      THEN "application/vnd.openxmlformats-officedocument.wordprocessingml.document"
                      ELSE "application/pdf",
     ext |-> req.ext]

(* Lines 107-148: the score is computed (with its fallback), the session *)
(* is stored under a new id and the id is returned                       *)
Store(r) ==
    /\ StoreReady(requests[r])
    /\ \E session_id \in FreshSessionIds(SESSION_STORE) :
          /\ SESSION_STORE' =
                 [s \in DOMAIN SESSION_STORE \cup {session_id} |->
                     IF s = session_id THEN SessionEntry(requests[r])
                     ELSE SESSION_STORE[s]]
          /\ requests' = [requests EXCEPT ![r] = Answered(200, session_id)]
    /\ UNCHANGED <<GROQ_API_KEY, docx_bytes_ok, download,
                   enforceVars, engineVars, fnVars>>

(* download_resume(session_id), for an id that uuid4 can give and for one *)
(* it cannot                                                             *)
download_resume(session_id) ==
    IF session_id \notin DOMAIN SESSION_STORE
    THEN [session_id |-> session_id, status |-> 404, bytes |-> <<>>,
          media_type |-> ""]
    ELSE [session_id |-> session_id, status |-> 200,
          bytes |-> SESSION_STORE[session_id].bytes,
          media_type |-> SESSION_STORE[session_id].content_type]

Download ==
    /\ LoopIdle
    /\ \E session_id \in {1, UnknownSessionId} :
          download' = download_resume(session_id)
    /\ UNCHANGED <<GROQ_API_KEY, docx_bytes_ok, SESSION_STORE, requests,
                   enforceVars, engineVars, fnVars>>

NextRouter ==
    \/ \E r \in Requests : Receive(r)
    \/ \E r \in Requests : Extract(r)
    \/ \E r \in Requests : Rewrite(r)
    \/ \E r \in Requests : Inject(r)
    \/ \E r \in Requests : Store(r)
    \/ Download

SpecRouter == InitRouter /\ [][NextRouter]_vars

----------------------------------------------------------------------------
(* Properties of the handlers                                              *)

ZeroSpans(req) == req.sections.summary = <<>> /\ req.sections.experience = <<>>

(* The text of a document of the given format *)
TextOf(e, bytes) ==
    IF e = ".docx" THEN get_full_docx_text(bytes) ELSE get_full_pdf_text(bytes)

(* C17: for every classified document and every response of the language *)
(* model, each list of the dict that rewrite_sections returns is at most  *)
(* as long as the span list of its section                                *)
C17_ListsNotLonger ==
    \A r \in Requests :
        requests[r].pc = "rewritten" =>
            \A S \in Labels :
                Len(NewTextsOf(requests[r].rewrites, S))
                    <= Len(Entries(requests[r].sections, S))

(* C19: when the classification gave no span, the rewrite step returns    *)
(* two empty lists without raising, the injection step does not raise,    *)
(* and the text of the output document is the text of the upload          *)
C19_EmptyExtractionIsTerminal ==
    [][\A r \in Requests :
          /\ (requests[r].pc = "extracted" /\ ZeroSpans(requests[r])
                 /\ requests'[r] # requests[r])
             => /\ requests'[r].pc = "rewritten"
                /\ requests'[r].rewrites = [summary |-> <<>>, experience |-> <<>>]
          /\ (requests[r].pc = "rewritten" /\ ZeroSpans(requests[r])
                 /\ requests'[r] # requests[r])
             => /\ requests'[r].pc = "injected"
                /\ TextOf(requests[r].ext, requests'[r].optimized_bytes)
                       = TextOf(requests[r].ext, requests[r].file_bytes)]_vars

(* A request leaves the handler in this step *)
Answers(r) == requests[r].pc # "done" /\ requests'[r].pc = "done"

Classified(up) ==
    IF up.ext = ".docx" THEN extract_docx_sections(up.file_bytes)
    ELSE extract_pdf_sections(up.file_bytes)

NothingRaises(up, response) ==
    /\ up.valid
    /\ ~rewrite_sections(Classified(up), TRUE, response).raised
    /\ ~EnforceRaises(Classified(up),
                      rewrite_sections(Classified(up), TRUE, response).result)

(* The documents that the three stages give when none of them raises: the *)
(* upload is classified, the whole reply of the language model is         *)
(* repaired, and every paired replacement is injected                     *)
WholeOutput(up, response) ==
    LET rw == rewrite_sections(Classified(up), TRUE, response).result
    IN  [ext |-> up.ext,
         bytes |-> IF up.ext = ".docx"
                   THEN inject_docx_rewrites(up.file_bytes, RewriteTexts(rw),
                                             DefaultTolerance)
                   ELSE inject_pdf_rewrites(up.file_bytes, RewriteTexts(rw),
                                            DefaultTolerance)]

WholeOutputs ==
    {WholeOutput(pair[1], pair[2]) :
        pair \in {q \in Uploads \X LlmResponses : NothingRaises(q[1], q[2])}}

(* C14: whenever extraction, rewrite generation or injection raises, the  *)
(* request is answered with an error and without a session id, the        *)
(* session store is left as it was, and every entry the store ever holds  *)
(* is the output of a run in which all three stages went through          *)
C14_AllOrNothing ==
    [][/\ \A r \in Requests :
            LET req == requests[r]
                raises == \/ req.pc = "read" /\ OpenRaises(req.ext, req.valid)
                          \/ req.pc = "extracted" /\ get_client_raises(GROQ_API_KEY)
                          \/ req.pc = "rewritten" /\ InjectRaises(req)
            IN  /\ (raises /\ requests'[r] # req)
                       => Answers(r) /\ requests'[r].status \in {400, 422, 500}
                /\ (Answers(r) /\ requests'[r].status # 200)
                       => /\ requests'[r].session_id = UnknownSessionId
                          /\ requests'[r].optimized_bytes = <<>>
                          /\ SESSION_STORE' = SESSION_STORE
       /\ \A s \in DOMAIN SESSION_STORE' :
            [ext |-> SESSION_STORE'[s].ext, bytes |-> SESSION_STORE'[s].bytes]
                \in WholeOutputs
       /\ download'.status = 200 =>
            \E out \in WholeOutputs : out.bytes = download'.bytes]_vars

(* One request was answered with an error after a stage raised and left  *)
(* nothing behind, while the output of the other one is stored and was   *)
(* downloaded                                                            *)
C14_Witness ==
    /\ \E r \in Requests :
          /\ requests[r].pc = "done"
          /\ requests[r].status = 500
          /\ requests[r].session_id \notin DOMAIN SESSION_STORE
    /\ Cardinality(DOMAIN SESSION_STORE) = 1
    /\ download.status = 200

(* The requests that were answered with a session id *)
Succeeded == {r \in Requests : requests[r].pc = "done" /\ requests[r].status = 200}

(* C18: under every interleaving of the handlers, a step changes the      *)
(* locals of one request at most; a successful request stores its output  *)
(* and content type under an id that is not in the store, and two         *)
(* requests never get the same id; an entry of the store is never changed *)
(* or removed; a download of a stored id returns the bytes and content    *)
(* type of its entry, which are those of the request that created it, and *)
(* a download of any other id returns 404                                 *)
C18_NoInterference ==
    [][/\ \A r, q \in Requests :
            (requests'[r] # requests[r] /\ requests'[q] # requests[q]) => r = q
       /\ \A r \in Requests :
            (Answers(r) /\ requests'[r].status = 200) =>
                LET s == requests'[r].session_id
                IN  /\ requests[r].pc = "injected"
                    /\ s \notin DOMAIN SESSION_STORE
                    /\ DOMAIN SESSION_STORE' = DOMAIN SESSION_STORE \cup {s}
                    /\ SESSION_STORE'[s].bytes = requests[r].optimized_bytes
                    /\ SESSION_STORE'[s].content_type =
                           SessionEntry(requests[r]).content_type
       /\ \A s \in DOMAIN SESSION_STORE :
            s \in DOMAIN SESSION_STORE' /\ SESSION_STORE'[s] = SESSION_STORE[s]
       /\ \A s \in DOMAIN SESSION_STORE' \ DOMAIN SESSION_STORE :
            \E r \in Requests : Answers(r) /\ requests'[r].session_id = s
       /\ \A r, q \in Succeeded' :
            requests'[r].session_id = requests'[q].session_id => r = q
       /\ download' # download =>
            IF \E r \in Succeeded : requests[r].session_id = download'.session_id
            THEN /\ download'.status = 200
                 /\ download'.bytes = SESSION_STORE[download'.session_id].bytes
                 /\ download'.media_type =
                        SESSION_STORE[download'.session_id].content_type
            ELSE download'.status = 404 /\ download'.bytes = <<>>]_vars

(* Two requests have stored different outputs, the second under the id a *)
(* download is then served from                                          *)
C18_Witness ==
    /\ Cardinality(Succeeded) >= 2
    /\ \E r, q \in Succeeded :
          /\ r < q
          /\ requests[r].session_id # 1
          /\ requests[q].session_id = 1
          /\ SESSION_STORE[requests[r].session_id].bytes # SESSION_STORE[1].bytes
    /\ download.session_id = 1
    /\ download.status = 200
    /\ download.bytes = SESSION_STORE[1].bytes

----------------------------------------------------------------------------
(* Headings of the run-oriented classifier that are no keyword            *)

(* Paragraph u passes the heading test and its text is in no keyword set *)
UntypedHeading(u) == ext = ".docx" /\ DocxUnitType(u) = "untyped"

(* The document without paragraph u *)
WithoutUnit(u) == SubSeq(file_bytes, 1, u - 1) \o SubSeq(file_bytes, u + 1, Len(file_bytes))

----------------------------------------------------------------------------
(* The section state of the geometry-oriented classifiers, block by block  *)

(* The blocks that have lines, each named by its page and its index; lines *)
(* is the sequence of the lines of the document in reading order           *)
BlocksOf(lines) == {<<lines[u].page, lines[u].block_idx>> : u \in 1..Len(lines)}
LinesOfBlock(lines, B) ==
    {u \in 1..Len(lines) : <<lines[u].page, lines[u].block_idx>> = B}

(* What the header test of classifier c says of each line *)
HeaderKinds(c, lines) ==
    [u \in 1..Len(lines) |->
        IF c = "pdf_engine" THEN _match_section(LineText(lines[u]))
        ELSE find_resume_sections_header(LineText(lines[u]))]

NonHeadingBlock(kinds, lines, B) == \A u \in LinesOfBlock(lines, B) : kinds[u] = "None"

(* The section of the last recognized heading before block B *)
SectionBefore(kinds, lines, B) ==
    LET heads == {u \in 1..Len(lines) :
                     /\ kinds[u] # "None"
                     /\ \A v \in LinesOfBlock(lines, B) : u < v}
    IN  IF heads = {} THEN "None"
        ELSE IF kinds[SetMax(heads)] = "stop" THEN "None"
        ELSE kinds[SetMax(heads)]

(* The text of a block: its lines that have text, joined by a space *)
BlockText(lines, B) ==
    LET first == CHOOSE u \in LinesOfBlock(lines, B) :
                     \A v \in LinesOfBlock(lines, B) : u <= v
        count == Cardinality(LinesOfBlock(lines, B))
        texts == [k \in 1..count |-> LineText(lines[first + k - 1])]
    IN  Strip(Join(SelectSeq(texts, LAMBDA t : t # <<>>), <<" ">>))

(* No text that a block with a heading commits can be mistaken for T *)
OnlyWholeBlocksGive(kinds, lines, T) ==
    \A B \in BlocksOf(lines) :
        ~NonHeadingBlock(kinds, lines, B) =>
            \A u \in LinesOfBlock(lines, B) :
                \/ LineText(lines[u]) = <<>>
                \/ Len(LineText(lines[u])) > Len(T)
                \/ SubSeq(T, 1, Len(LineText(lines[u]))) # LineText(lines[u])

(* C21: in both geometry-oriented classifiers the section of a block is   *)
(* that of the last recognized heading before it, on whatever page or in  *)
(* whatever block that heading stands: a block without a heading line is  *)
(* assigned to section S exactly when that heading is an S heading, and   *)
(* to no section when there is no heading before it or the last one is a  *)
(* stop heading.  extract_pdf_sections assigns the spans that have text,  *)
(* find_resume_sections the text of the block.                            *)
C21_SectionPersistsAcrossPages ==
    /\ (Extracted /\ ext = ".pdf") =>
          LET lines == InputLines
              kinds == HeaderKinds("pdf_engine", lines)
          IN  \A B \in BlocksOf(lines) : \A S \in Labels :
                  NonHeadingBlock(kinds, lines, B) =>
                      \A u \in LinesOfBlock(lines, B) : \A k \in 1..Len(lines[u].spans) :
                          Strip(lines[u].spans[k].text) # <<>> =>
                              ((\E e \in 1..Len(Entries(sections, S)) :
                                   /\ Entries(sections, S)[e].page = B[1]
                                   /\ Entries(sections, S)[e].block_idx = B[2]
                                   /\ Entries(sections, S)[e].rect = lines[u].spans[k].bbox)
                                  <=> SectionBefore(kinds, lines, B) = S)
    /\ (fn_pc = "returned" /\ fn_name = "find_resume_sections") =>
          LET lines == InputLines
              kinds == HeaderKinds("pdf_engine_v2", lines)
          IN  \A B \in BlocksOf(lines) : \A S \in Labels :
                  (/\ NonHeadingBlock(kinds, lines, B)
                   /\ BlockText(lines, B) # <<>>
                   /\ OnlyWholeBlocksGive(kinds, lines, BlockText(lines, B)))
                      => Cardinality({e \in 1..Len(Entries(fn_ret, S)) :
                                         Entries(fn_ret, S)[e].text = BlockText(lines, B)})
                         = Cardinality({C \in BlocksOf(lines) :
                                         /\ NonHeadingBlock(kinds, lines, C)
                                         /\ BlockText(lines, C) = BlockText(lines, B)
                                         /\ SectionBefore(kinds, lines, C) = S})

(* Both classifiers have run on a document whose first page ends with an  *)
(* experience heading: the block of the next page is in the Experience    *)
(* list of both, and the block before the heading is in no list           *)
C21_Witness ==
    /\ Extracted /\ ext = ".pdf"
    /\ fn_pc = "returned" /\ fn_name = "find_resume_sections"
    /\ Len(file_bytes) = 2
    /\ LET lines == InputLines
           v1 == HeaderKinds("pdf_engine", lines)
           v2 == HeaderKinds("pdf_engine_v2", lines)
       IN  /\ \E u \in 2..Len(lines) :
                 /\ lines[u].page = 0
                 /\ \A v \in (u + 1)..Len(lines) : lines[v].page = 1
                 /\ v1[u] = "experience" /\ v2[u] = "experience"
                 /\ \A v \in 1..(u - 1) : v1[v] = "None" /\ v2[v] = "None"
           /\ \E B \in BlocksOf(lines) :
                 /\ B[1] = 1
                 /\ NonHeadingBlock(v1, lines, B) /\ NonHeadingBlock(v2, lines, B)
                 /\ \E e \in 1..Len(sections.experience) : sections.experience[e].page = 1
                 /\ \E e \in 1..Len(fn_ret.experience) :
                        fn_ret.experience[e].text = BlockText(lines, B)
    /\ sections.summary = <<>> /\ fn_ret.summary = <<>>
    /\ \A e \in 1..Len(sections.experience) : sections.experience[e].page = 1
    /\ Len(fn_ret.experience) = 1

----------------------------------------------------------------------------
(* The two classifications of inject_pdf_rewrites                          *)

(* Span e of the input is no longer in the content stream of document d *)
ErasedIn(d, e) == \A sp \in PageSpans(d[e.page + 1]) : sp.bbox # e.rect

(* A text is drawn in document d at the origin of span e *)
RedrawnIn(d, e) == DrawnAt(d[e.page + 1], e.origin) # {}

====
